---- MODULE Spec2Model ----
(***************************************************************************)
(* Minipyth (isaacg1/minipyth, src/main.rs): lexer, parser and evaluator.  *)
(*                                                                         *)
(* A program is a sequence of one-letter tokens.  lex maps letters to      *)
(* tokens, parse turns the token vector into a Func tree with a working    *)
(* stack of HOF entries, and Func::execute / Func::inverse_execute         *)
(* interpret the tree over Objects.                                        *)
(*                                                                         *)
(* Rust enums are records with a "kind" field:                             *)
(*   Token  Basic(op) | Higher(op) | Double(op) | Bound(op)                *)
(*   Func   Basic(op) | Higher(op, body) | Double(op, func1, func2)        *)
(*          | Bound(funcs)                                                 *)
(*   HOF    Higher(op) | Double(op) | DoubleHalf(op, func) | Func(func)    *)
(*          | Quote                                                        *)
(* A Rust panic (panic!, unreachable!, unimplemented!, a failed assert!)   *)
(* is the result Panic(msg); a normal return is Ok(val).                   *)
(***************************************************************************)
EXTENDS Integers, Sequences, FiniteSets, TLC

VARIABLES
    code,       \* run: the program text, a sequence of one-letter strings
    tokens,     \* run: the token vector returned by lex
    pos,        \* parse: index of the next token of `for token in tokens`
    state,      \* parse: the working stack `state: Vec<HOF>` (bottom first)
    func,       \* the Func returned by parse (NoFunc until then)
    pc,         \* "lex", "parse", "done", "panic", "executed", "inverted",
                \* "input", "printed", and inside parse "bind_loop",
                \* "quote_loop", "walk_state", "walk_func", "close_open"
    panic_msg,  \* the message of the panic that aborted the run, or ""
    parsed_input, \* the Object handed to the evaluator (NoObject until then)
    result,       \* what the evaluation returned (NoObject until then)
    input,        \* run: the input text, a sequence of one-letter strings
                  \* (<<>> where a run starts from a parsed Object)
    printed,      \* run: the text returned, format!("{}", output) (<<>>
                  \* until then: no Object prints as the empty text)
    locals        \* parse: the local variables of the loop that is running

vars == <<code, tokens, pos, state, func, pc, panic_msg, parsed_input, result,
          input, printed, locals>>

----------------------------------------------------------------------------
(* Bounds of the model.                                                    *)

\* Every program of at most MaxLen letters over Alphabet is parsed.
MaxLen == 5

\* Letters of the exhaustively enumerated programs: two Basic, one Higher,
\* one Double, and both closing tokens.
Alphabet == {"h", "t", "m", "b", "z", "q"}

----------------------------------------------------------------------------
(* Generic helpers.                                                        *)

Ok(v) == [ok |-> TRUE, val |-> v]
Panic(m) == [ok |-> FALSE, msg |-> m]

Reverse(s) == [i \in 1..Len(s) |-> s[Len(s) + 1 - i]]
Front(s) == SubSeq(s, 1, Len(s) - 1)
Last(s) == s[Len(s)]

RECURSIVE SeqsUpTo(_, _)
SeqsUpTo(S, n) ==
    IF n = 0 THEN {<<>>}
    ELSE LET shorter == SeqsUpTo(S, n - 1) IN
         shorter \cup {Append(s, x) : s \in {t \in shorter : Len(t) = n - 1}, x \in S}

----------------------------------------------------------------------------
(* Tokens, Funcs and parser stack entries.                                 *)

Token_Basic(op) == [kind |-> "Basic", op |-> op]
Token_Higher(op) == [kind |-> "Higher", op |-> op]
Token_Double(op) == [kind |-> "Double", op |-> op]
Token_Bound(op) == [kind |-> "Bound", op |-> op]

Func_Basic(op) == [kind |-> "Basic", op |-> op]
Func_Higher(op, body) == [kind |-> "Higher", op |-> op, body |-> body]
Func_Double(op, func1, func2) ==
    [kind |-> "Double", op |-> op, func1 |-> func1, func2 |-> func2]
Func_Bound(funcs) == [kind |-> "Bound", funcs |-> funcs]

HOF_Higher(op) == [kind |-> "Higher", op |-> op]
HOF_Double(op) == [kind |-> "Double", op |-> op]
HOF_DoubleHalf(op, f) == [kind |-> "DoubleHalf", op |-> op, func |-> f]
HOF_Func(f) == [kind |-> "Func", func |-> f]
HOF_Quote == [kind |-> "Quote"]

\* The value of `func` before parse has returned.
NoFunc == [kind |-> "None"]

\* The value of `parsed_input` and `result` before the evaluator has run.
NoObject == [kind |-> "None"]

\* The local variables of the loops of parse.
Locals(rev_bind_group, funcs, open_higher, working_func, index) ==
    [rev_bind_group |-> rev_bind_group, funcs |-> funcs,
     open_higher |-> open_higher, working_func |-> working_func,
     index |-> index]

\* The value of `locals` while no loop of parse is running.
NoLocals == Locals(<<>>, <<>>, <<>>, NoFunc, 0)

----------------------------------------------------------------------------
(* lex                                                                     *)

\* The closure of lex: one letter to one token, unimplemented! otherwise.
lex_char(c) ==
    CASE c = "a" -> Ok(Token_Basic("AllPair"))
      [] c = "b" -> Ok(Token_Double("Bifurcate"))
      [] c = "c" -> Ok(Token_Basic("Combine"))
      [] c = "e" -> Ok(Token_Basic("Equal"))
      [] c = "f" -> Ok(Token_Higher("Filter"))
      [] c = "h" -> Ok(Token_Basic("Head"))
      [] c = "i" -> Ok(Token_Higher("Inverse"))
      [] c = "l" -> Ok(Token_Basic("Length"))
      [] c = "m" -> Ok(Token_Higher("Map"))
      [] c = "n" -> Ok(Token_Basic("Negate"))
      [] c = "o" -> Ok(Token_Higher("Order"))
      [] c = "p" -> Ok(Token_Basic("Product"))
      [] c = "q" -> Ok(Token_Bound("BoundQuote"))
      [] c = "r" -> Ok(Token_Higher("Repeat"))
      [] c = "s" -> Ok(Token_Basic("Sum"))
      [] c = "t" -> Ok(Token_Basic("Tail"))
      [] c = "w" -> Ok(Token_Double("While"))
      [] c = "x" -> Ok(Token_Higher("FixedPoint"))
      [] c = "y" -> Ok(Token_Basic("PowerSet"))
      [] c = "z" -> Ok(Token_Bound("Bound1"))
      [] OTHER -> Panic("Lex")

is_bound_quote(elem) == elem = Token_Bound("BoundQuote")

\* Mutant of first_bound_quote: the last BoundQuote instead of the first.
last_bound_quote(toks) ==
    IF \E i \in 1..Len(toks) : is_bound_quote(toks[i])
    THEN CHOOSE i \in 1..Len(toks) :
            /\ is_bound_quote(toks[i])
            /\ \A j \in (i + 1)..Len(toks) : ~is_bound_quote(toks[j])
    ELSE 0

\* iter().position(pred): the least index satisfying pred, 0 for None.
first_bound_quote(toks) ==
    IF \E i \in 1..Len(toks) : is_bound_quote(toks[i])
    THEN CHOOSE i \in 1..Len(toks) :
            /\ is_bound_quote(toks[i])
            /\ \A j \in 1..(i - 1) : ~is_bound_quote(toks[j])
    ELSE 0

lex(c) ==
    IF \E i \in 1..Len(c) : ~lex_char(c[i]).ok
    THEN Panic("Lex")
    ELSE LET mapped == [i \in 1..Len(c) |-> lex_char(c[i]).val]
             num_quote == Cardinality({i \in 1..Len(c) : is_bound_quote(mapped[i])})
             solo_index == first_bound_quote(mapped)
         IN  IF num_quote % 2 = 1
             THEN Ok([mapped EXCEPT ![solo_index] = Token_Bound("SoloQuote")])
             ELSE Ok(mapped)

----------------------------------------------------------------------------
(* parse: the handling of one token                                        *)

is_quote(elem) == elem.kind = "Quote"
is_func(elem) == elem.kind = "Func"

quote_count(st) == Cardinality({i \in 1..Len(st) : is_quote(st[i])})

\* Mutant of first_unbound_index: the last entry that is not a Func.
last_unbound_index(st) ==
    IF \E i \in 1..Len(st) : ~is_func(st[i])
    THEN CHOOSE i \in 1..Len(st) :
            /\ ~is_func(st[i])
            /\ \A j \in (i + 1)..Len(st) : is_func(st[j])
    ELSE 0

\* state.iter().position(|elem| !matches!(elem, HOF::Func(_))), 0 for None.
first_unbound_index(st) ==
    IF \E i \in 1..Len(st) : ~is_func(st[i])
    THEN CHOOSE i \in 1..Len(st) :
            /\ ~is_func(st[i])
            /\ \A j \in 1..(i - 1) : is_func(st[j])
    ELSE 0

\* Vec::insert: elem becomes the entry right after the first `after` entries.
insert_after(st, after, elem) ==
    SubSeq(st, 1, after) \o <<elem>> \o SubSeq(st, after + 1, Len(st))

\* The pre-step taken for a SoloQuote token before the match on the token.
solo_quote_prestep(st) ==
    IF \E i \in 1..Len(st) : is_quote(st[i])
    THEN Panic("assertion failed: no Quote before SoloQuote")
    ELSE IF first_unbound_index(st) # 0
    THEN Ok(insert_after(st, first_unbound_index(st), HOF_Quote))
    ELSE Panic("SoloQuote has no preceeding unbound")

\* Mutant of bind_loop: the bind group is not reversed back.
RECURSIVE bind_loop_unreversed(_, _)
bind_loop_unreversed(st, rev_bind_group) ==
    IF st = <<>> THEN Panic("Bind reached front")
    ELSE LET last == Last(st)
             rest == Front(st)
             bound_func == Func_Bound(rev_bind_group)
         IN  CASE last.kind = "Higher" ->
                    Ok(Append(rest, HOF_Func(Func_Higher(last.op, bound_func))))
               [] last.kind = "Double" ->
                    Ok(Append(rest, HOF_DoubleHalf(last.op, bound_func)))
               [] last.kind = "DoubleHalf" ->
                    Ok(Append(rest,
                        HOF_Func(Func_Double(last.op, last.func, bound_func))))
               [] last.kind = "Func" ->
                    bind_loop_unreversed(rest, Append(rev_bind_group, last.func))
               [] last.kind = "Quote" -> Panic("Bind reached quote")

\* Mutant of bind_loop: a Quote marker is popped and skipped.
RECURSIVE bind_loop_skips_quote(_, _)
bind_loop_skips_quote(st, rev_bind_group) ==
    IF st = <<>> THEN Panic("Bind reached front")
    ELSE LET last == Last(st)
             rest == Front(st)
             bound_func == Func_Bound(Reverse(rev_bind_group))
         IN  CASE last.kind = "Higher" ->
                    Ok(Append(rest, HOF_Func(Func_Higher(last.op, bound_func))))
               [] last.kind = "Double" ->
                    Ok(Append(rest, HOF_DoubleHalf(last.op, bound_func)))
               [] last.kind = "DoubleHalf" ->
                    Ok(Append(rest,
                        HOF_Func(Func_Double(last.op, last.func, bound_func))))
               [] last.kind = "Func" ->
                    bind_loop_skips_quote(rest, Append(rev_bind_group, last.func))
               [] last.kind = "Quote" ->
                    bind_loop_skips_quote(rest, rev_bind_group)

\* The loop of the Bound1 arm: pop until an open operator closes over the
\* reversed bind group.
RECURSIVE bind_loop(_, _)
bind_loop(st, rev_bind_group) ==
    IF st = <<>> THEN Panic("Bind reached front")
    ELSE LET last == Last(st)
             rest == Front(st)
             bound_func == Func_Bound(Reverse(rev_bind_group))
         IN  CASE last.kind = "Higher" ->
                    Ok(Append(rest, HOF_Func(Func_Higher(last.op, bound_func))))
               [] last.kind = "Double" ->
                    Ok(Append(rest, HOF_DoubleHalf(last.op, bound_func)))
               [] last.kind = "DoubleHalf" ->
                    Ok(Append(rest,
                        HOF_Func(Func_Double(last.op, last.func, bound_func))))
               [] last.kind = "Func" ->
                    bind_loop(rest, Append(rev_bind_group, last.func))
               [] last.kind = "Quote" -> Panic("Bind reached quote")

\* Mutant of quote_close: the Func below the marker is kept wrapped in a
\* Bound when it becomes the left body.
quote_close_wrapped_prev(st, rev_bind_group) ==
    LET bound_func == Func_Bound(Reverse(rev_bind_group)) IN
    IF st = <<>> THEN Panic("Paired quote not in legal position")
    ELSE LET last_state == Last(st)
             rest == Front(st)
         IN  CASE last_state.kind = "Higher" ->
                    Ok(Append(rest, HOF_Func(Func_Higher(last_state.op, bound_func))))
               [] last_state.kind = "Double" ->
                    Ok(Append(rest, HOF_DoubleHalf(last_state.op, bound_func)))
               [] last_state.kind = "DoubleHalf" ->
                    Ok(Append(rest,
                        HOF_Func(Func_Double(last_state.op, last_state.func, bound_func))))
               [] last_state.kind = "Func" ->
                    IF rest # <<>> /\ Last(rest).kind = "Double"
                    THEN Ok(Append(Front(rest),
                            HOF_Func(Func_Double(Last(rest).op,
                                                 Func_Bound(<<last_state.func>>),
                                                 bound_func))))
                    ELSE Panic("Paired quote in front of func, not in legal position")
               [] OTHER -> Panic("Paired quote not in legal position")

\* The Quote case of the closing-quote loop: `st` is the stack below the
\* popped Quote marker.
quote_close(st, rev_bind_group) ==
    LET bound_func == Func_Bound(Reverse(rev_bind_group)) IN
    IF st = <<>> THEN Panic("Paired quote not in legal position")
    ELSE LET last_state == Last(st)
             rest == Front(st)
         IN  CASE last_state.kind = "Higher" ->
                    Ok(Append(rest, HOF_Func(Func_Higher(last_state.op, bound_func))))
               [] last_state.kind = "Double" ->
                    Ok(Append(rest, HOF_DoubleHalf(last_state.op, bound_func)))
               [] last_state.kind = "DoubleHalf" ->
                    Ok(Append(rest,
                        HOF_Func(Func_Double(last_state.op, last_state.func, bound_func))))
               [] last_state.kind = "Func" ->
                    IF rest # <<>> /\ Last(rest).kind = "Double"
                    THEN Ok(Append(Front(rest),
                            HOF_Func(Func_Double(Last(rest).op, last_state.func,
                                                 bound_func))))
                    ELSE Panic("Paired quote in front of func, not in legal position")
               [] OTHER -> Panic("Paired quote not in legal position")

\* Mutant of quote_loop: an open Double with a function after it is closed
\* at once with an empty right body instead of going back on the stack.
RECURSIVE quote_loop_double_closed(_, _)
quote_loop_double_closed(st, rev_bind_group) ==
    IF st = <<>> THEN Panic("unreachable: Didn't find paired quote")
    ELSE LET last == Last(st)
             rest == Front(st)
             no_prev == rev_bind_group = <<>>
             prev == Last(rev_bind_group)
             popped == Front(rev_bind_group)
         IN  CASE last.kind = "Func" ->
                    quote_loop_double_closed(rest, Append(rev_bind_group, last.func))
               [] last.kind = "Quote" -> quote_close(rest, rev_bind_group)
               [] last.kind = "Higher" ->
                    IF no_prev
                    THEN quote_loop_double_closed(rest,
                            <<Func_Higher(last.op, Func_Bound(<<>>))>>)
                    ELSE quote_loop_double_closed(rest,
                            Append(popped, Func_Higher(last.op, prev)))
               [] last.kind = "Double" ->
                    IF no_prev
                    THEN quote_loop_double_closed(rest,
                            <<Func_Double(last.op, Func_Bound(<<>>), Func_Bound(<<>>))>>)
                    ELSE quote_loop_double_closed(rest,
                            Append(popped, Func_Double(last.op, prev, Func_Bound(<<>>))))
               [] last.kind = "DoubleHalf" ->
                    IF no_prev
                    THEN quote_loop_double_closed(rest,
                            <<Func_Double(last.op, last.func, Func_Bound(<<>>))>>)
                    ELSE quote_loop_double_closed(rest,
                            Append(popped, Func_Double(last.op, last.func, prev)))

\* The loop of the BoundQuote / SoloQuote arm once a Quote is on the stack.
RECURSIVE quote_loop(_, _)
quote_loop(st, rev_bind_group) ==
    IF st = <<>> THEN Panic("unreachable: Didn't find paired quote")
    ELSE LET last == Last(st)
             rest == Front(st)
             no_prev == rev_bind_group = <<>>
             prev == Last(rev_bind_group)
             popped == Front(rev_bind_group)
         IN  CASE last.kind = "Func" ->
                    quote_loop(rest, Append(rev_bind_group, last.func))
               [] last.kind = "Quote" -> quote_close(rest, rev_bind_group)
               [] last.kind = "Higher" ->
                    IF no_prev
                    THEN quote_loop(rest,
                            <<Func_Higher(last.op, Func_Bound(<<>>))>>)
                    ELSE quote_loop(rest,
                            Append(popped, Func_Higher(last.op, prev)))
               [] last.kind = "Double" ->
                    IF no_prev
                    THEN quote_loop(rest,
                            <<Func_Double(last.op, Func_Bound(<<>>), Func_Bound(<<>>))>>)
                    ELSE quote_loop(Append(rest, HOF_DoubleHalf(last.op, prev)),
                                    popped)
               [] last.kind = "DoubleHalf" ->
                    IF no_prev
                    THEN quote_loop(rest,
                            <<Func_Double(last.op, last.func, Func_Bound(<<>>))>>)
                    ELSE quote_loop(rest,
                            Append(popped, Func_Double(last.op, last.func, prev)))

\* The BoundQuote | SoloQuote arm of the match.
quote_arm(st) ==
    IF quote_count(st) > 1 THEN Panic("assertion failed: quote_count <= 1")
    ELSE IF quote_count(st) = 0 THEN Ok(Append(st, HOF_Quote))
    ELSE quote_loop(st, <<>>)

\* The match on the token.
token_arm(st, token) ==
    CASE token.kind = "Basic" -> Ok(Append(st, HOF_Func(Func_Basic(token.op))))
      [] token.kind = "Higher" -> Ok(Append(st, HOF_Higher(token.op)))
      [] token.kind = "Double" -> Ok(Append(st, HOF_Double(token.op)))
      [] token.kind = "Bound" /\ token.op = "Bound1" -> bind_loop(st, <<>>)
      [] token.kind = "Bound" /\ token.op \in {"BoundQuote", "SoloQuote"} ->
            quote_arm(st)

\* One iteration of `for token in tokens`.
parse_token(st, token) ==
    IF token = Token_Bound("SoloQuote")
    THEN LET pre == solo_quote_prestep(st) IN
         IF pre.ok THEN token_arm(pre.val, token) ELSE pre
    ELSE token_arm(st, token)

----------------------------------------------------------------------------
(* parse: end-of-stream finalisation                                       *)

HD_H(op) == [kind |-> "H", op |-> op]
HD_D(op) == [kind |-> "D", op |-> op]
HD_D2(op, f) == [kind |-> "D2", op |-> op, func |-> f]

\* Mutant of walk_func: the loop stops after wrapping one open Higher.
walk_func_one_higher(funcs, open_higher, working_func) ==
    IF open_higher = <<>>
    THEN [funcs |-> Append(funcs, working_func), open_higher |-> open_higher]
    ELSE LET top == Last(open_higher)
             rest == Front(open_higher)
         IN  CASE top.kind = "H" ->
                    [funcs |-> Append(funcs, Func_Higher(top.op, working_func)),
                     open_higher |-> rest]
               [] top.kind = "D" ->
                    [funcs |-> funcs,
                     open_higher |-> Append(rest, HD_D2(top.op, working_func))]
               [] top.kind = "D2" ->
                    [funcs |-> Append(funcs, Func_Double(top.op, top.func, working_func)),
                     open_higher |-> rest]

\* The inner loop run for a HOF::Func of the final stack: returns the new
\* (funcs, open_higher).
RECURSIVE walk_func(_, _, _)
walk_func(funcs, open_higher, working_func) ==
    IF open_higher = <<>>
    THEN [funcs |-> Append(funcs, working_func), open_higher |-> open_higher]
    ELSE LET top == Last(open_higher)
             rest == Front(open_higher)
         IN  CASE top.kind = "H" ->
                    walk_func(funcs, rest, Func_Higher(top.op, working_func))
               [] top.kind = "D" ->
                    [funcs |-> funcs,
                     open_higher |-> Append(rest, HD_D2(top.op, working_func))]
               [] top.kind = "D2" ->
                    walk_func(funcs, rest,
                              Func_Double(top.op, top.func, working_func))

\* `for hof in state`, from entry i on.
RECURSIVE walk_state(_, _, _, _)
walk_state(st, i, funcs, open_higher) ==
    IF i > Len(st) THEN Ok([funcs |-> funcs, open_higher |-> open_higher])
    ELSE LET hof == st[i] IN
         CASE hof.kind = "Func" ->
                LET w == walk_func(funcs, open_higher, hof.func) IN
                walk_state(st, i + 1, w.funcs, w.open_higher)
           [] hof.kind = "Higher" ->
                walk_state(st, i + 1, funcs, Append(open_higher, HD_H(hof.op)))
           [] hof.kind = "Double" ->
                walk_state(st, i + 1, funcs, Append(open_higher, HD_D(hof.op)))
           [] hof.kind = "DoubleHalf" ->
                walk_state(st, i + 1, funcs,
                           Append(open_higher, HD_D2(hof.op, hof.func)))
           [] hof.kind = "Quote" ->
                Panic("unreachable: All quotes paired at start of parse")

\* Mutant of close_open: an open Higher gets Bound of the working function.
RECURSIVE close_open_wrapped(_, _)
close_open_wrapped(open_higher, working_func) ==
    IF open_higher = <<>> THEN working_func
    ELSE LET top == Last(open_higher)
             rest == Front(open_higher)
         IN  CASE top.kind = "H" ->
                    close_open_wrapped(rest,
                        Func_Higher(top.op, Func_Bound(<<working_func>>)))
               [] top.kind = "D" ->
                    close_open_wrapped(rest,
                        Func_Double(top.op, working_func, Func_Bound(<<>>)))
               [] top.kind = "D2" ->
                    close_open_wrapped(rest,
                        Func_Double(top.op, top.func, working_func))

\* Mutant of close_open: an open Double gets the working function as its
\* right body.
RECURSIVE close_open_right(_, _)
close_open_right(open_higher, working_func) ==
    IF open_higher = <<>> THEN working_func
    ELSE LET top == Last(open_higher)
             rest == Front(open_higher)
         IN  CASE top.kind = "H" ->
                    close_open_right(rest, Func_Higher(top.op, working_func))
               [] top.kind = "D" ->
                    close_open_right(rest,
                        Func_Double(top.op, Func_Bound(<<>>), working_func))
               [] top.kind = "D2" ->
                    close_open_right(rest,
                        Func_Double(top.op, top.func, working_func))

\* The closing loop over what is left of open_higher.
RECURSIVE close_open(_, _)
close_open(open_higher, working_func) ==
    IF open_higher = <<>> THEN working_func
    ELSE LET top == Last(open_higher)
             rest == Front(open_higher)
         IN  CASE top.kind = "H" ->
                    close_open(rest, Func_Higher(top.op, working_func))
               [] top.kind = "D" ->
                    close_open(rest,
                        Func_Double(top.op, working_func, Func_Bound(<<>>)))
               [] top.kind = "D2" ->
                    close_open(rest, Func_Double(top.op, top.func, working_func))

\* Everything parse does after the token loop.
finalise(st) ==
    LET walked == walk_state(st, 1, <<>>, <<>>) IN
    IF ~walked.ok THEN walked
    ELSE IF walked.val.open_higher # <<>>
    THEN Ok(Func_Bound(Append(walked.val.funcs,
                close_open(walked.val.open_higher, Func_Bound(<<>>)))))
    ELSE Ok(Func_Bound(walked.val.funcs))

\* parse as a function of the token vector.
RECURSIVE parse_from(_, _, _)
parse_from(toks, i, st) ==
    IF i > Len(toks) THEN finalise(st)
    ELSE LET r == parse_token(st, toks[i]) IN
         IF r.ok THEN parse_from(toks, i + 1, r.val) ELSE r

parse(toks) == parse_from(toks, 1, <<>>)

----------------------------------------------------------------------------
(* Objects                                                                 *)
(*                                                                         *)
(*   Object  Int(i) | List(l) | Error(e)                                   *)
(* An evaluation that panics yields Abort(msg) in place of an Object, and  *)
(* one that leaves the bounds of the model yields Beyond; both pass        *)
(* through every later step unchanged, as unwinding does.                  *)

Object_Int(i) == [kind |-> "Int", i |-> i]
Object_List(l) == [kind |-> "List", l |-> l]
Object_Error(e) == [kind |-> "Error", e |-> e]

Abort(m) == [kind |-> "Panic", msg |-> m]
Beyond == [kind |-> "Beyond"]
IsAbort(obj) == obj.kind \in {"Panic", "Beyond"}

\* Integers of the model: a BigInt whose magnitude passes MaxAbs is Beyond.
MaxAbs == 5000

\* Lists built by ranges, power sets and products hold at most MaxList
\* elements.
MaxList == 64

\* Exponents of 2 the model computes: PowerSet of a larger Int, or of a
\* longer List, is Beyond.
MaxExp == 12

\* Iterations of the FixedPoint and While loops followed before the model
\* gives up.
MaxSteps == 12

Abs(i) == IF i < 0 THEN -i ELSE i
BigInt(i) == IF Abs(i) > MaxAbs THEN Beyond ELSE Object_Int(i)

\* The first abnormal result of a sequence of results, if any.
HasAbort(objs) == \E i \in 1..Len(objs) : IsAbort(objs[i])
FirstAbort(objs) ==
    objs[CHOOSE i \in 1..Len(objs) :
            IsAbort(objs[i]) /\ \A j \in 1..(i - 1) : ~IsAbort(objs[j])]

is_int(elem) == elem.kind = "Int"
is_list(elem) == elem.kind = "List"
is_error(elem) == elem.kind = "Error"

\* Mutant of to_key: an Error gets the key of the empty List.
RECURSIVE to_key_error_as_list(_)
to_key_error_as_list(obj) ==
    CASE obj.kind = "Int" -> [b |-> FALSE, n |-> obj.i, v |-> <<>>]
      [] obj.kind = "List" ->
            [b |-> TRUE, n |-> 0,
             v |-> [k \in 1..Len(obj.l) |-> to_key_error_as_list(obj.l[k])]]
      [] obj.kind = "Error" -> [b |-> TRUE, n |-> 0, v |-> <<>>]

\* SortKey(bool, BigInt, Vec<SortKey>) as a record.
RECURSIVE to_key(_)
to_key(obj) ==
    CASE obj.kind = "Int" -> [b |-> FALSE, n |-> obj.i, v |-> <<>>]
      [] obj.kind = "List" ->
            [b |-> TRUE, n |-> 0, v |-> [k \in 1..Len(obj.l) |-> to_key(obj.l[k])]]
      [] obj.kind = "Error" -> [b |-> TRUE, n |-> 1, v |-> <<>>]

\* The derived Ord of SortKey: field by field, a Vec lexicographically with
\* a proper prefix first.  -1, 0, 1 for Less, Equal, Greater.
RECURSIVE key_cmp(_, _)
RECURSIVE key_vec_cmp(_, _, _)
key_cmp(a, b) ==
    IF a.b # b.b THEN (IF b.b THEN -1 ELSE 1)
    ELSE IF a.n # b.n THEN (IF a.n < b.n THEN -1 ELSE 1)
    ELSE key_vec_cmp(a.v, b.v, 1)
key_vec_cmp(u, w, k) ==
    IF k > Len(u) /\ k > Len(w) THEN 0
    ELSE IF k > Len(u) THEN -1
    ELSE IF k > Len(w) THEN 1
    ELSE LET c == key_cmp(u[k], w[k]) IN
         IF c # 0 THEN c ELSE key_vec_cmp(u, w, k + 1)

is_truthy(obj) ==
    CASE obj.kind = "Int" -> obj.i # 0
      [] obj.kind = "List" -> obj.l # <<>>
      [] obj.kind = "Error" -> FALSE

\* Object::to_list: the elements as Object_List(elements), or the panic.
to_list(obj) ==
    CASE obj.kind = "Int" /\ obj.i < 0 ->
            IF -obj.i > MaxList THEN Beyond
            ELSE Object_List([k \in 1..(-obj.i) |-> Object_Int(-obj.i - k)])
      [] obj.kind = "Int" /\ obj.i >= 0 ->
            IF obj.i > MaxList THEN Beyond
            ELSE Object_List([k \in 1..obj.i |-> Object_Int(k - 1)])
      [] obj.kind = "List" -> obj
      [] obj.kind = "Error" -> Abort("to_list called on Error")

----------------------------------------------------------------------------
(* BasicFunc::execute                                                      *)

\* Iterator::sum over a list of Int.
RECURSIVE sum_ints(_, _)
sum_ints(l, k) == IF k > Len(l) THEN 0 ELSE l[k].i + sum_ints(l, k + 1)

\* Iterator::product over a list of Int, from element k on with the partial
\* product acc.
RECURSIVE product_ints(_, _, _)
product_ints(l, k, acc) ==
    IF k > Len(l) THEN BigInt(acc)
    ELSE IF Abs(acc) > MaxAbs THEN Beyond
    ELSE product_ints(l, k + 1, acc * l[k].i)

\* One level of flattening: Int and Error stay, a List is spliced.
RECURSIVE flatten(_, _)
flatten(l, k) ==
    IF k > Len(l) THEN <<>>
    ELSE (IF l[k].kind = "List" THEN l[k].l ELSE <<l[k]>>) \o flatten(l, k + 1)

\* i32::MAX: `let mut div = 2` in the inverse of Product is an i32, the
\* type an integer literal falls back to.  No Integer of the model is
\* larger.
MaxI32 == 2147483647

\* One round of the trial division loop of Product on an Int, from the
\* loop state st = (j, work, factors).  j, work and their product are
\* BigInt: `j * j <= work` is written j <= work / j, which is the same
\* for j >= 1 and stays inside the integers of the model.
factor_step(st) ==
    IF st.j <= st.work \div st.j
    THEN IF st.work % st.j = 0
         THEN [st EXCEPT !.work = st.work \div st.j,
                         !.factors = Append(st.factors, st.j)]
         ELSE [st EXCEPT !.j = st.j + 1]
    ELSE [st EXCEPT !.done = TRUE]

\* n rounds of the loop from st, or fewer when the loop is left earlier
\* (the rounds are run half by half to keep the nesting shallow).
RECURSIVE factor_steps(_, _)
factor_steps(st, n) ==
    IF st.done THEN st
    ELSE IF n = 1 THEN factor_step(st)
    ELSE factor_steps(factor_steps(st, n \div 2), n - n \div 2)

\* The trial division loop of Product on an Int, and the push of what is
\* left of work after it.
factor_loop(j, work, factors) ==
    LET st == factor_steps([done |-> FALSE, j |-> j, work |-> work,
                            factors |-> factors], MaxI32)
    IN  IF st.work > 1 THEN Append(st.factors, st.work) ELSE st.factors

\* The staging loop of Product on a list of lists, from sub-list k on.
RECURSIVE cartesian(_, _, _)
cartesian(list_of_lists, k, staged_lists) ==
    IF k > Len(list_of_lists) THEN Object_List([n \in 1..Len(staged_lists) |-> Object_List(staged_lists[n])])
    ELSE LET sub_list == list_of_lists[k]
             m == Len(sub_list)
         IN  IF Len(staged_lists) * m > MaxList THEN Beyond
             ELSE cartesian(list_of_lists, k + 1,
                    [n \in 1..(Len(staged_lists) * m) |->
                        Append(staged_lists[((n - 1) \div m) + 1],
                               sub_list[((n - 1) % m) + 1])])

\* Mutant of combine_row: an Integer element is pushed into every row.
RECURSIVE combine_row_int_everywhere(_, _, _)
combine_row_int_everywhere(l, k, index) ==
    IF k > Len(l) THEN <<>>
    ELSE LET elem == l[k]
             to_push ==
                 IF elem.kind = "Int" THEN <<elem>>
                 ELSE IF index < Len(elem.l) THEN <<elem.l[index + 1]>>
                 ELSE <<>>
         IN  to_push \o combine_row_int_everywhere(l, k + 1, index)

\* The row of Combine for `index` (from 0), from element k on.
RECURSIVE combine_row(_, _, _)
combine_row(l, k, index) ==
    IF k > Len(l) THEN <<>>
    ELSE LET elem == l[k]
             to_push ==
                 CASE elem.kind = "Int" -> IF index = 0 THEN <<elem>> ELSE <<>>
                   [] elem.kind = "List" ->
                        IF index < Len(elem.l) THEN <<elem.l[index + 1]>> ELSE <<>>
         IN  to_push \o combine_row(l, k + 1, index)

max_of(S) == CHOOSE x \in S : \A y \in S : y <= x

RECURSIVE pow2(_)
pow2(n) == IF n = 0 THEN 1 ELSE 2 * pow2(n - 1)

\* The subset of PowerSet numbered i: element k (from 0) iff bit k of i.
RECURSIVE subset_of(_, _, _)
subset_of(l, k, i) ==
    IF k > Len(l) THEN <<>>
    ELSE (IF (i \div pow2(k - 1)) % 2 = 1 THEN <<l[k]>> ELSE <<>>)
            \o subset_of(l, k + 1, i)

\* Mutant of to_radix_be: the least significant digit first.
RECURSIVE to_radix_le(_)
to_radix_le(n) ==
    IF n < 2 THEN <<n>> ELSE <<n % 2>> \o to_radix_le(n \div 2)

\* BigInt::to_radix_be(2): the binary digits of a magnitude, [0] for 0.
RECURSIVE to_radix_be(_)
to_radix_be(n) ==
    IF n < 2 THEN <<n>> ELSE Append(to_radix_be(n \div 2), n % 2)

\* Each list of `lists` paired elementwise with a fixed Object by `pair`.
pair_lists(lists, pair(_)) ==
    LET out == [n \in 1..Len(lists) |->
                   Object_List([k \in 1..Len(lists[n].l) |-> pair(lists[n].l[k])])]
    IN  IF Len(out) = 1 THEN out[1] ELSE Object_List(out)

all_pair_list(l) ==
    IF Len(l) >= 2 /\ \E k \in 2..Len(l) : is_list(l[k])
    THEN LET first == l[1]
             rest_lists == [k \in 1..(Len(l) - 1) |-> to_list(l[k + 1])]
         IN  IF HasAbort(rest_lists) THEN FirstAbort(rest_lists)
             ELSE LET P(elem) == Object_List(<<first, elem>>) IN pair_lists(rest_lists, P)
    ELSE IF Len(l) >= 2 /\ is_list(l[1])
    THEN LET second == l[2]
             rest == <<l[1]>> \o SubSeq(l, 3, Len(l))
             rest_lists == [k \in 1..Len(rest) |-> to_list(rest[k])]
         IN  IF HasAbort(rest_lists) THEN FirstAbort(rest_lists)
             ELSE LET P(elem) == Object_List(<<elem, second>>) IN pair_lists(rest_lists, P)
    ELSE Object_List([k \in 1..Len(l) |-> Object_List(<<Object_List(l), l[k]>>)])

BasicFunc_execute(self, arg) ==
    CASE self = "Head" /\ is_int(arg) -> BigInt(arg.i + 1)
      [] self = "Head" /\ is_list(arg) ->
            IF arg.l = <<>> THEN Object_Error("Head of empty list") ELSE arg.l[1]
      [] self = "Tail" /\ is_int(arg) -> BigInt(arg.i - 1)
      [] self = "Tail" /\ is_list(arg) ->
            IF arg.l = <<>> THEN Object_Error("Tail of empty list")
            ELSE Object_List(SubSeq(arg.l, 2, Len(arg.l)))
      [] self = "Sum" /\ is_int(arg) -> IF arg.i = 0 THEN Object_Int(1) ELSE Object_Int(0)
      [] self = "Sum" /\ is_list(arg) ->
            IF \A k \in 1..Len(arg.l) : is_int(arg.l[k])
            THEN BigInt(sum_ints(arg.l, 1))
            ELSE Object_List(flatten(arg.l, 1))
      [] self = "Product" /\ is_int(arg) ->
            LET a == Abs(arg.i) IN
            IF a < 2 THEN Object_List(<<>>)
            ELSE LET factors == factor_loop(2, a, <<>>) IN
                 Object_List([k \in 1..Len(factors) |-> Object_Int(factors[k])])
      [] self = "Product" /\ is_list(arg) ->
            IF \A k \in 1..Len(arg.l) : is_int(arg.l[k])
            THEN product_ints(arg.l, 1, 1)
            ELSE IF \E k \in 1..Len(arg.l) : is_error(arg.l[k])
            THEN Abort("Product has error in list")
            ELSE LET list_of_lists == [k \in 1..Len(arg.l) |-> to_list(arg.l[k])] IN
                 IF HasAbort(list_of_lists) THEN FirstAbort(list_of_lists)
                 ELSE cartesian([k \in 1..Len(arg.l) |-> list_of_lists[k].l], 1, <<<<>>>>)
      [] self = "Combine" /\ is_list(arg) ->
            LET l == arg.l IN
            IF \E k \in 1..Len(l) : is_error(l[k])
            THEN l[CHOOSE k \in 1..Len(l) :
                     is_error(l[k]) /\ \A j \in 1..(k - 1) : ~is_error(l[j])]
            ELSE IF l = <<>> THEN Abort("Empty -> 1")
            ELSE LET longest == max_of({IF is_int(l[k]) THEN 1 ELSE Len(l[k].l)
                                            : k \in 1..Len(l)})
                 IN  Object_List([index \in 1..longest |-> Object_List(combine_row(l, 1, index - 1))])
      [] self = "PowerSet" /\ is_int(arg) ->
            IF arg.i < 0 THEN Object_Error("Negative exponent in power set")
            ELSE IF arg.i > MaxExp THEN Beyond
            ELSE BigInt(pow2(arg.i))
      [] self = "PowerSet" /\ is_list(arg) ->
            IF Len(arg.l) > MaxExp \/ pow2(Len(arg.l)) > MaxList THEN Beyond
            ELSE LET num_subsets == pow2(Len(arg.l)) IN
                 Object_List([n \in 1..num_subsets |-> Object_List(subset_of(arg.l, 1, n - 1))])
      [] self = "Length" /\ is_list(arg) -> Object_Int(Len(arg.l))
      [] self = "Length" /\ is_int(arg) ->
            LET bits == to_radix_be(Abs(arg.i)) IN
            Object_List([k \in 1..Len(bits) |-> Object_Int(bits[k])])
      [] self = "Negate" /\ is_int(arg) -> Object_Int(-arg.i)
      [] self = "Negate" /\ is_list(arg) -> Object_List(Reverse(arg.l))
      [] self = "Equal" /\ is_list(arg) ->
            IF arg.l = <<>> THEN Object_Int(1)
            ELSE IF \A k \in 1..(Len(arg.l) - 1) : arg.l[k] = Last(arg.l)
            THEN Object_Int(1) ELSE Object_Int(0)
      [] self = "AllPair" /\ is_list(arg) -> all_pair_list(arg.l)
      [] self = "AllPair" /\ is_int(arg) ->
            LET list == to_list(arg) IN
            IF IsAbort(list) THEN list
            ELSE Object_List([k \in 1..Len(list.l) |-> Object_List(<<arg, list.l[k]>>)])
      [] is_error(arg) -> arg
      [] OTHER -> Abort("Basic func unimplemented")

----------------------------------------------------------------------------
(* BasicFunc::inverse_execute                                              *)

\* BigInt division and remainder, truncated toward zero.
trunc_div(num, den) ==
    LET q == Abs(num) \div Abs(den) IN
    IF (num < 0) # (den < 0) THEN -q ELSE q
trunc_rem(num, den) == num - den * trunc_div(num, den)

\* `div * div` overflows the i32.  With overflow checks (the dev and test
\* profiles) this is the panic below; without them the product wraps and
\* the loop runs on over the wrapped values, which the model does not
\* follow.
Overflow == Abort("attempt to multiply with overflow")

\* One round of the trial division loop of the inverse of Product on an
\* Int, from the loop state st = (div, is_prime).
is_prime_step(st, i) ==
    IF st.div > MaxI32 \div st.div
    THEN [st EXCEPT !.done = TRUE, !.overflow = TRUE]
    ELSE IF st.div * st.div <= i
    THEN IF i % st.div = 0
         THEN [st EXCEPT !.done = TRUE, !.is_prime = FALSE]
         ELSE [st EXCEPT !.div = st.div + 1]
    ELSE [st EXCEPT !.done = TRUE]

\* n rounds of the loop from st, or fewer when the loop is left earlier.
RECURSIVE is_prime_steps(_, _, _)
is_prime_steps(st, i, n) ==
    IF st.done THEN st
    ELSE IF n = 1 THEN is_prime_step(st, i)
    ELSE is_prime_steps(is_prime_steps(st, i, n \div 2), i, n - n \div 2)

\* The trial division loop of the inverse of Product on an Int: the Int
\* returned, or the panic.
is_prime_loop(div, i) ==
    LET st == is_prime_steps([done |-> FALSE, overflow |-> FALSE, div |-> div,
                              is_prime |-> TRUE], i, MaxI32)
    IN  IF st.overflow THEN Overflow
        ELSE IF st.is_prime THEN Object_Int(1) ELSE Object_Int(0)

\* The loop of the inverse of Length: total = total * 2 + bit.
RECURSIVE from_bits(_, _, _)
from_bits(l, k, total) ==
    IF k > Len(l) THEN BigInt(total)
    ELSE IF Abs(total) > MaxAbs THEN Beyond
    ELSE from_bits(l, k + 1, total * 2 + l[k].i)

\* Mutant of BasicFunc_inverse_execute: the inverse of a primitive is its
\* forward function.
BasicFunc_inverse_as_forward(self, arg) == BasicFunc_execute(self, arg)

BasicFunc_inverse_execute(self, arg) ==
    CASE self = "Head" /\ is_int(arg) -> BigInt(arg.i - 1)
      [] self = "Head" /\ is_list(arg) ->
            IF arg.l = <<>> THEN Object_Error("End (inverse head) of empty list")
            ELSE Last(arg.l)
      [] self = "Tail" /\ is_list(arg) ->
            IF arg.l = <<>> THEN Object_Error("Inverse tail of empty list")
            ELSE Object_List(Front(arg.l))
      [] self = "Product" /\ is_list(arg) /\ Len(arg.l) = 2 ->
            IF is_int(arg.l[1]) /\ is_int(arg.l[2])
            THEN IF arg.l[2].i = 0 THEN Object_Error("Divide by zero")
                 ELSE Object_List(<<Object_Int(trunc_div(arg.l[1].i, arg.l[2].i)),
                                    Object_Int(trunc_rem(arg.l[1].i, arg.l[2].i))>>)
            ELSE Abort("Unimplemented inverse product")
      [] self = "Product" /\ is_int(arg) ->
            IF arg.i <= 1 THEN Object_Int(0)
            ELSE is_prime_loop(2, arg.i)
      [] self = "Length" /\ is_list(arg) ->
            IF \A k \in 1..Len(arg.l) : is_int(arg.l[k])
            THEN from_bits(arg.l, 1, 0)
            ELSE Abort("Unimplemented inverse l")
      [] self = "Sum" -> Object_List(<<arg>>)
      [] is_error(arg) -> arg
      [] OTHER -> Abort("Basic inverse func unimplemented")

----------------------------------------------------------------------------
(* Func, HigherFunc and DoubleFunc: execute and inverse_execute            *)

RECURSIVE Func_execute(_, _)
RECURSIVE Func_inverse_execute(_, _)
RECURSIVE HigherFunc_execute(_, _, _)
RECURSIVE HigherFunc_inverse_execute(_, _, _)
RECURSIVE DoubleFunc_execute(_, _, _, _)
RECURSIVE DoubleFunc_inverse_execute(_, _, _, _)

\* Mutant of first_error: the last Error of the results.
last_error(objs) ==
    IF \E k \in 1..Len(objs) : is_error(objs[k])
    THEN objs[CHOOSE k \in 1..Len(objs) :
                is_error(objs[k]) /\ \A j \in (k + 1)..Len(objs) : ~is_error(objs[j])]
    ELSE Object_List(objs)

\* HigherFunc::first_error: the first Error of the results, else their List.
first_error(objs) ==
    IF \E k \in 1..Len(objs) : is_error(objs[k])
    THEN objs[CHOOSE k \in 1..Len(objs) :
                is_error(objs[k]) /\ \A j \in 1..(k - 1) : ~is_error(objs[j])]
    ELSE Object_List(objs)

\* Vec::retain with the verdicts already computed.
RECURSIVE retain(_, _, _)
retain(l, tests, k) ==
    IF k > Len(l) THEN <<>>
    ELSE (IF is_truthy(tests[k]) THEN <<l[k]>> ELSE <<>>) \o retain(l, tests, k + 1)

\* Mutant of insert_sorted: index x goes before the indices of equal key.
RECURSIVE insert_sorted_unstable(_, _, _)
insert_sorted_unstable(sorted, x, keys) ==
    IF sorted = <<>> THEN <<x>>
    ELSE IF key_cmp(keys[Last(sorted)], keys[x]) < 0 THEN Append(sorted, x)
    ELSE Append(insert_sorted_unstable(Front(sorted), x, keys), Last(sorted))

\* The stable sort of sort_by_key, as the sorted sequence of the indices of
\* `keys`: index x goes behind every index already placed whose key is not
\* greater.
RECURSIVE insert_sorted(_, _, _)
insert_sorted(sorted, x, keys) ==
    IF sorted = <<>> THEN <<x>>
    ELSE IF key_cmp(keys[Last(sorted)], keys[x]) <= 0 THEN Append(sorted, x)
    ELSE Append(insert_sorted(Front(sorted), x, keys), Last(sorted))

RECURSIVE sort_indices(_, _, _)
sort_indices(keys, k, sorted) ==
    IF k > Len(keys) THEN sorted
    ELSE sort_indices(keys, k + 1, insert_sorted(sorted, k, keys))

\* Mutant of invert_indices: the sorted indices as they are.
indices_as_sorted(indices) == indices

\* for (index, &perm) in indices.iter().enumerate() {
\*     inverse_indices[perm] = Some(index); }
invert_indices(indices) ==
    [perm \in 1..Len(indices) |->
        CHOOSE index \in 1..Len(indices) : indices[index] = perm]

\* Mutant of fixed_point_loop: the value that ends the loop is collected
\* too.
RECURSIVE fixed_point_loop_keeps_last(_, _, _, _, _)
fixed_point_loop_keeps_last(f, seen, sequence, current, steps) ==
    IF IsAbort(current) THEN current
    ELSE IF current \in seen \/ is_error(current)
         THEN Object_List(Append(sequence, current))
    ELSE IF steps = 0 THEN Beyond
    ELSE fixed_point_loop_keeps_last(f, seen \cup {current}, Append(sequence, current),
                                     Func_execute(f, current), steps - 1)

\* The loop of FixedPoint, with `steps` iterations left to the model.
RECURSIVE fixed_point_loop(_, _, _, _, _)
fixed_point_loop(f, seen, sequence, current, steps) ==
    IF IsAbort(current) THEN current
    ELSE IF current \in seen \/ is_error(current) THEN Object_List(sequence)
    ELSE IF steps = 0 THEN Beyond
    ELSE fixed_point_loop(f, seen \cup {current}, Append(sequence, current),
                          Func_execute(f, current), steps - 1)

\* Mutant of repeat_loop: the loop ends with the first Error of the body.
RECURSIVE repeat_loop_until_error(_, _, _, _)
repeat_loop_until_error(f, current, n, output) ==
    IF n = 0 THEN Object_List(output)
    ELSE LET next == Func_execute(f, current) IN
         IF IsAbort(next) THEN next
         ELSE IF is_error(next) THEN Object_List(Append(output, next))
         ELSE repeat_loop_until_error(f, next, n - 1, Append(output, next))

\* The loops of Repeat: n more applications of the body f.
RECURSIVE repeat_loop(_, _, _, _)
repeat_loop(f, current, n, output) ==
    IF n = 0 THEN Object_List(output)
    ELSE LET next == Func_execute(f, current) IN
         IF IsAbort(next) THEN next
         ELSE repeat_loop(f, next, n - 1, Append(output, next))

HigherFunc_execute(self, f, arg) ==
    CASE self = "Map" ->
            LET list == to_list(arg) IN
            IF IsAbort(list) THEN list
            ELSE LET out_list == [k \in 1..Len(list.l) |-> Func_execute(f, list.l[k])] IN
                 IF HasAbort(out_list) THEN FirstAbort(out_list)
                 ELSE first_error(out_list)
      [] self = "Filter" ->
            LET list == to_list(arg) IN
            IF IsAbort(list) THEN list
            ELSE LET tests == [k \in 1..Len(list.l) |-> Func_execute(f, list.l[k])] IN
                 IF HasAbort(tests) THEN FirstAbort(tests)
                 ELSE Object_List(retain(list.l, tests, 1))
      [] self = "Order" ->
            LET list == to_list(arg) IN
            IF IsAbort(list) THEN list
            \* sort_by_key compares nothing, and so calls no key, below two
            \* elements
            ELSE IF Len(list.l) < 2 THEN list
            ELSE LET new_objs == [k \in 1..Len(list.l) |-> Func_execute(f, list.l[k])] IN
                 IF HasAbort(new_objs) THEN FirstAbort(new_objs)
                 ELSE LET keys == [k \in 1..Len(new_objs) |-> to_key(new_objs[k])]
                          indices == sort_indices(keys, 1, <<>>)
                      IN  Object_List([k \in 1..Len(indices) |-> list.l[indices[k]]])
      [] self = "FixedPoint" -> fixed_point_loop(f, {}, <<>>, arg, MaxSteps)
      [] self = "Inverse" -> Func_inverse_execute(f, arg)
      [] self = "Repeat" ->
            LET times == CASE is_list(arg) /\ arg.l = <<>> -> arg
                           [] is_list(arg) /\ arg.l # <<>> -> arg.l[1]
                           [] OTHER -> arg
                start == CASE is_list(arg) /\ Len(arg.l) = 0 -> arg
                           [] is_list(arg) /\ Len(arg.l) = 1 -> arg.l[1]
                           [] is_list(arg) /\ Len(arg.l) >= 2 -> arg.l[2]
                           [] OTHER -> arg
            IN  CASE is_list(times) ->
                        repeat_loop(f, start, Len(times.l), <<start>>)
                  [] is_int(times) ->
                        IF times.i < 0 THEN Object_List(<<>>)
                        ELSE IF times.i > MaxList THEN Beyond
                        ELSE repeat_loop(f, start, times.i, <<>>)
                  [] is_error(times) -> Object_List(<<>>)

\* Mutant of HigherFunc_inverse_execute: the inverse of a Higher operator
\* is its forward function.
HigherFunc_inverse_as_forward(self, f, arg) == HigherFunc_execute(self, f, arg)

HigherFunc_inverse_execute(self, f, arg) ==
    CASE self = "Order" ->
            LET list == to_list(arg) IN
            IF IsAbort(list) THEN list
            ELSE IF Len(list.l) < 2 THEN list
            ELSE LET new_objs == [k \in 1..Len(list.l) |-> Func_execute(f, list.l[k])] IN
                 IF HasAbort(new_objs) THEN FirstAbort(new_objs)
                 ELSE LET keys == [k \in 1..Len(new_objs) |-> to_key(new_objs[k])]
                          indices == sort_indices(keys, 1, <<>>)
                          inverse_indices == invert_indices(indices)
                      IN  Object_List([k \in 1..Len(indices) |-> list.l[inverse_indices[k]]])
      [] self = "Inverse" -> Func_execute(f, arg)
      [] OTHER -> HigherFunc_execute(self, Func_Higher("Inverse", f), arg)

\* Mutant of while_loop: the element whose test fails is not collected.
RECURSIVE while_loop_drops_last(_, _, _, _, _)
while_loop_drops_last(func1, func2, working_arg, sequence, steps) ==
    IF IsAbort(working_arg) THEN working_arg
    ELSE IF is_error(working_arg) THEN Object_List(sequence)
    ELSE LET test == Func_execute(func1, working_arg) IN
         IF IsAbort(test) THEN test
         ELSE IF ~is_truthy(test) THEN Object_List(sequence)
         ELSE IF steps = 0 THEN Beyond
         ELSE while_loop_drops_last(func1, func2, Func_execute(func2, working_arg),
                                    Append(sequence, working_arg), steps - 1)

\* The loop of While, with `steps` iterations left to the model.
RECURSIVE while_loop(_, _, _, _, _)
while_loop(func1, func2, working_arg, sequence, steps) ==
    IF IsAbort(working_arg) THEN working_arg
    ELSE IF is_error(working_arg) THEN Object_List(sequence)
    ELSE LET test == Func_execute(func1, working_arg) IN
         IF IsAbort(test) THEN test
         ELSE IF ~is_truthy(test) THEN Object_List(Append(sequence, working_arg))
         ELSE IF steps = 0 THEN Beyond
         ELSE while_loop(func1, func2, Func_execute(func2, working_arg),
                         Append(sequence, working_arg), steps - 1)

\* Mutant of bifurcate: the Error of the right branch is looked for first.
bifurcate_right_first(ret1, ret2) ==
    IF is_error(ret2) THEN ret2
    ELSE IF is_error(ret1) THEN ret1
    ELSE Object_List(<<ret1, ret2>>)

\* if matches! {ret1, Error(_)} { ret1 } else if matches! {ret2, Error(_)}
\* { ret2 } else { List(vec![ret1, ret2]) }
bifurcate(ret1, ret2) ==
    IF is_error(ret1) THEN ret1
    ELSE IF is_error(ret2) THEN ret2
    ELSE Object_List(<<ret1, ret2>>)

DoubleFunc_execute(self, func1, func2, arg) ==
    CASE self = "While" -> while_loop(func1, func2, arg, <<>>, MaxSteps)
      [] self = "Bifurcate" ->
            LET ret1 == Func_execute(func1, arg)
                ret2 == Func_execute(func2, arg)
            IN  IF IsAbort(ret1) THEN ret1
                ELSE IF IsAbort(ret2) THEN ret2
                ELSE bifurcate(ret1, ret2)

\* Mutant of DoubleFunc_inverse_execute: the inverse of a Double operator
\* is its forward function.
DoubleFunc_inverse_as_forward(self, func1, func2, arg) ==
    DoubleFunc_execute(self, func1, func2, arg)

DoubleFunc_inverse_execute(self, func1, func2, arg) ==
    DoubleFunc_execute(self, Func_Higher("Inverse", func1),
                       Func_Higher("Inverse", func2), arg)

\* Mutant of execute_rev: the functions of a Bound applied first to last.
RECURSIVE execute_fwd(_, _, _)
execute_fwd(funcs, k, working_obj) ==
    IF k = 0 THEN working_obj
    ELSE execute_fwd(funcs, k - 1, Func_execute(funcs[Len(funcs) + 1 - k], working_obj))

\* `for func in funcs.iter().rev()`: funcs[k] is applied next, then the
\* ones before it.
RECURSIVE execute_rev(_, _, _)
execute_rev(funcs, k, working_obj) ==
    IF k = 0 THEN working_obj
    ELSE execute_rev(funcs, k - 1, Func_execute(funcs[k], working_obj))

\* `for func in funcs`: funcs[k] is inverted next, then the ones after it.
RECURSIVE inverse_execute_all(_, _, _)
inverse_execute_all(funcs, k, working_obj) ==
    IF k > Len(funcs) THEN working_obj
    ELSE inverse_execute_all(funcs, k + 1, Func_inverse_execute(funcs[k], working_obj))

Func_execute(self, arg) ==
    IF IsAbort(arg) THEN arg
    ELSE CASE self.kind = "Basic" -> BasicFunc_execute(self.op, arg)
           [] self.kind = "Higher" -> HigherFunc_execute(self.op, self.body, arg)
           [] self.kind = "Double" ->
                DoubleFunc_execute(self.op, self.func1, self.func2, arg)
           [] self.kind = "Bound" -> execute_rev(self.funcs, Len(self.funcs), arg)

Func_inverse_execute(self, arg) ==
    IF IsAbort(arg) THEN arg
    ELSE CASE self.kind = "Basic" -> BasicFunc_inverse_execute(self.op, arg)
           [] self.kind = "Higher" -> HigherFunc_inverse_execute(self.op, self.body, arg)
           [] self.kind = "Double" ->
                DoubleFunc_inverse_execute(self.op, self.func1, self.func2, arg)
           [] self.kind = "Bound" -> inverse_execute_all(self.funcs, 1, arg)

----------------------------------------------------------------------------
(* run: lex, then parse token by token, then the finalisation              *)

\* Programs of the test suites (coverage_parse.rs, codegolf.rs), parsed on
\* top of the exhaustively enumerated ones.
TestPrograms == {
    <<"h", "s", "s">>,
    <<"m", "h", "h", "m">>,
    <<"m", "h", "m", "m", "z", "z">>,
    <<"m", "m", "m">>,
    <<"i", "h", "m", "h", "m", "h", "m", "h", "z", "h", "z", "h", "q">>,
    <<"b", "h", "h", "z", "h", "h", "z">>,
    <<"b", "q", "h", "h", "q", "h", "h", "z">>,
    <<"m", "b", "q">>,
    <<"m", "b", "h", "q">>,
    <<"b">>,
    <<"b", "h">>,
    <<"b", "h", "q", "h", "h", "q">>,
    <<"t", "t", "s", "m", "z", "y", "h", "h", "y", "h", "h">>,
    <<"h", "t", "n", "r", "b", "h", "q", "b", "h", "t">>,
    <<"i", "m", "h">>,
    <<"c", "m", "m">>,
    <<"t", "m">>,
    <<"h", "u">>
}

Programs == SeqsUpTo(Alphabet, MaxLen) \cup TestPrograms

Init ==
    /\ code \in Programs
    /\ tokens = <<>>
    /\ pos = 1
    /\ state = <<>>
    /\ func = NoFunc
    /\ pc = "lex"
    /\ panic_msg = ""
    /\ parsed_input = NoObject
    /\ result = NoObject
    /\ input = <<>>
    /\ printed = <<>>
    /\ locals = NoLocals

\* let tokens = lex(program);
Lex ==
    /\ pc = "lex"
    /\ LET r == lex(code) IN
       IF r.ok
       THEN /\ tokens' = r.val
            /\ pc' = "parse"
            /\ panic_msg' = panic_msg
       ELSE /\ tokens' = tokens
            /\ pc' = "panic"
            /\ panic_msg' = r.msg
    /\ UNCHANGED <<code, pos, state, func, parsed_input, result,
                 input, printed, locals>>

\* One iteration of the token loop of parse.
ParseToken ==
    /\ pc = "parse"
    /\ pos <= Len(tokens)
    /\ LET r == parse_token(state, tokens[pos]) IN
       IF r.ok
       THEN /\ state' = r.val
            /\ pos' = pos + 1
            /\ pc' = pc
            /\ panic_msg' = panic_msg
       ELSE /\ state' = state
            /\ pos' = pos
            /\ pc' = "panic"
            /\ panic_msg' = r.msg
    /\ UNCHANGED <<code, tokens, func, parsed_input, result,
                 input, printed, locals>>

\* The end of the token loop: finalisation and return.
ParseEnd ==
    /\ pc = "parse"
    /\ pos > Len(tokens)
    /\ LET r == finalise(state) IN
       IF r.ok
       THEN /\ func' = r.val
            /\ pc' = "done"
            /\ panic_msg' = panic_msg
       ELSE /\ func' = func
            /\ pc' = "panic"
            /\ panic_msg' = r.msg
    /\ UNCHANGED <<code, tokens, pos, state, parsed_input, result,
                 input, printed, locals>>

Next == Lex \/ ParseToken \/ ParseEnd

Spec == Init /\ [][Next]_vars

----------------------------------------------------------------------------
(* parse, one loop iteration at a time.  `locals` holds the local          *)
(* variables of the loop that is running.                                  *)

\* What one iteration of a loop over the stack leaves: the loop goes on,
\* it breaks, or the run panics.
Loop(st, rev_bind_group) ==
    [kind |-> "loop", state |-> st, rev_bind_group |-> rev_bind_group]
Break(st) ==
    [kind |-> "break", state |-> st, rev_bind_group |-> <<>>]
Unwind(m) == [kind |-> "panic", msg |-> m]

\* One iteration of the loop of the Bound1 arm.
bind_step(st, rev_bind_group) ==
    IF st = <<>> THEN Unwind("Bind reached front")
    ELSE LET last == Last(st)
             rest == Front(st)
             bound_func == Func_Bound(Reverse(rev_bind_group))
         IN  CASE last.kind = "Higher" ->
                    Break(Append(rest, HOF_Func(Func_Higher(last.op, bound_func))))
               [] last.kind = "Double" ->
                    Break(Append(rest, HOF_DoubleHalf(last.op, bound_func)))
               [] last.kind = "DoubleHalf" ->
                    Break(Append(rest,
                        HOF_Func(Func_Double(last.op, last.func, bound_func))))
               [] last.kind = "Func" ->
                    Loop(rest, Append(rev_bind_group, last.func))
               [] last.kind = "Quote" -> Unwind("Bind reached quote")

\* Mutant of quote_step: an open Double with a function after it goes back
\* on the stack as it was, the function staying in the bind group.
quote_step_double_kept(st, rev_bind_group) ==
    IF st = <<>> THEN Unwind("unreachable: Didn't find paired quote")
    ELSE LET last == Last(st)
             rest == Front(st)
             no_prev == rev_bind_group = <<>>
             prev == Last(rev_bind_group)
             popped == Front(rev_bind_group)
         IN  CASE last.kind = "Func" ->
                    Loop(rest, Append(rev_bind_group, last.func))
               [] last.kind = "Quote" ->
                    LET r == quote_close(rest, rev_bind_group)
                    IN  IF r.ok THEN Break(r.val) ELSE Unwind(r.msg)
               [] last.kind = "Higher" ->
                    IF no_prev
                    THEN Loop(rest, <<Func_Higher(last.op, Func_Bound(<<>>))>>)
                    ELSE Loop(rest, Append(popped, Func_Higher(last.op, prev)))
               [] last.kind = "Double" ->
                    IF no_prev
                    THEN Loop(rest,
                            <<Func_Double(last.op, Func_Bound(<<>>), Func_Bound(<<>>))>>)
                    ELSE Loop(Append(rest, last), rev_bind_group)
               [] last.kind = "DoubleHalf" ->
                    IF no_prev
                    THEN Loop(rest,
                            <<Func_Double(last.op, last.func, Func_Bound(<<>>))>>)
                    ELSE Loop(rest,
                            Append(popped, Func_Double(last.op, last.func, prev)))

\* One iteration of the loop of the BoundQuote / SoloQuote arm.
quote_step(st, rev_bind_group) ==
    IF st = <<>> THEN Unwind("unreachable: Didn't find paired quote")
    ELSE LET last == Last(st)
             rest == Front(st)
             no_prev == rev_bind_group = <<>>
             prev == Last(rev_bind_group)
             popped == Front(rev_bind_group)
         IN  CASE last.kind = "Func" ->
                    Loop(rest, Append(rev_bind_group, last.func))
               [] last.kind = "Quote" ->
                    LET r == quote_close(rest, rev_bind_group)
                    IN  IF r.ok THEN Break(r.val) ELSE Unwind(r.msg)
               [] last.kind = "Higher" ->
                    IF no_prev
                    THEN Loop(rest, <<Func_Higher(last.op, Func_Bound(<<>>))>>)
                    ELSE Loop(rest, Append(popped, Func_Higher(last.op, prev)))
               [] last.kind = "Double" ->
                    IF no_prev
                    THEN Loop(rest,
                            <<Func_Double(last.op, Func_Bound(<<>>), Func_Bound(<<>>))>>)
                    ELSE Loop(Append(rest, HOF_DoubleHalf(last.op, prev)), popped)
               [] last.kind = "DoubleHalf" ->
                    IF no_prev
                    THEN Loop(rest,
                            <<Func_Double(last.op, last.func, Func_Bound(<<>>))>>)
                    ELSE Loop(rest,
                            Append(popped, Func_Double(last.op, last.func, prev)))

\* One iteration of the inner loop run for a HOF::Func of the final stack:
\* the locals it leaves, and whether it broke out.
walk_func_step(l) ==
    IF l.open_higher = <<>>
    THEN [break |-> TRUE,
          locals |-> [l EXCEPT !.funcs = Append(l.funcs, l.working_func)]]
    ELSE LET top == Last(l.open_higher)
             rest == Front(l.open_higher)
         IN  CASE top.kind = "H" ->
                    [break |-> FALSE,
                     locals |-> [l EXCEPT !.open_higher = rest,
                         !.working_func = Func_Higher(top.op, l.working_func)]]
               [] top.kind = "D" ->
                    [break |-> TRUE,
                     locals |-> [l EXCEPT !.open_higher =
                                     Append(rest, HD_D2(top.op, l.working_func))]]
               [] top.kind = "D2" ->
                    [break |-> FALSE,
                     locals |-> [l EXCEPT !.open_higher = rest,
                         !.working_func =
                             Func_Double(top.op, top.func, l.working_func)]]

\* One iteration of the closing loop over what is left of open_higher.
close_step(l) ==
    IF l.open_higher = <<>>
    THEN [break |-> TRUE,
          locals |-> [l EXCEPT !.funcs = Append(l.funcs, l.working_func)]]
    ELSE LET top == Last(l.open_higher)
             rest == Front(l.open_higher)
             closed ==
                 CASE top.kind = "H" -> Func_Higher(top.op, l.working_func)
                   [] top.kind = "D" ->
                        Func_Double(top.op, l.working_func, Func_Bound(<<>>))
                   [] top.kind = "D2" ->
                        Func_Double(top.op, top.func, l.working_func)
         IN  [break |-> FALSE,
              locals |-> [l EXCEPT !.open_higher = rest,
                                   !.working_func = closed]]

\* The programs parsed step by step: every program of at most MaxStepLen
\* letters, the test programs, and two programs whose closing quote meets
\* an open Double with functions after it.
MaxStepLen == 4

StepPrograms ==
    SeqsUpTo(Alphabet, MaxStepLen) \cup TestPrograms
        \cup {<<"m", "q", "b", "h", "q">>, <<"m", "q", "b", "h", "t", "q">>}

InitSteps ==
    /\ code \in StepPrograms
    /\ tokens = <<>>
    /\ pos = 1
    /\ state = <<>>
    /\ func = NoFunc
    /\ pc = "lex"
    /\ panic_msg = ""
    /\ parsed_input = NoObject
    /\ result = NoObject
    /\ input = <<>>
    /\ printed = <<>>
    /\ locals = NoLocals

\* The head of one iteration of `for token in tokens`: the SoloQuote
\* pre-step and the match on the token, up to the loop of its arm.
TokenStep ==
    /\ pc = "parse"
    /\ pos <= Len(tokens)
    /\ LET token == tokens[pos]
           pre == IF token = Token_Bound("SoloQuote")
                  THEN solo_quote_prestep(state) ELSE Ok(state)
           binds == token = Token_Bound("Bound1")
           closes == /\ token.kind = "Bound" /\ ~binds
                     /\ pre.ok /\ quote_count(pre.val) = 1
           r == IF ~pre.ok \/ binds \/ closes THEN pre
                ELSE token_arm(pre.val, token)
       IN  IF r.ok
           THEN /\ state' = r.val
                /\ pos' = IF binds \/ closes THEN pos ELSE pos + 1
                /\ pc' = IF binds THEN "bind_loop"
                         ELSE IF closes THEN "quote_loop" ELSE pc
                /\ panic_msg' = panic_msg
           ELSE /\ state' = state
                /\ pos' = pos
                /\ pc' = "panic"
                /\ panic_msg' = r.msg
    /\ locals' = NoLocals
    /\ UNCHANGED <<code, tokens, func, parsed_input, result, input, printed>>

\* What an iteration r of a loop over the stack does to the run.
StackLoop(r) ==
    /\ IF r.kind = "panic"
       THEN /\ pc' = "panic"
            /\ panic_msg' = r.msg
            /\ UNCHANGED <<state, pos, locals>>
       ELSE /\ state' = r.state
            /\ locals' = [locals EXCEPT !.rev_bind_group = r.rev_bind_group]
            /\ pos' = IF r.kind = "break" THEN pos + 1 ELSE pos
            /\ pc' = IF r.kind = "break" THEN "parse" ELSE pc
            /\ panic_msg' = panic_msg
    /\ UNCHANGED <<code, tokens, func, parsed_input, result, input, printed>>

\* One iteration of the loop of the Bound1 arm.
BindStep ==
    /\ pc = "bind_loop"
    /\ StackLoop(bind_step(state, locals.rev_bind_group))

\* One iteration of the loop of the BoundQuote / SoloQuote arm.
QuoteStep ==
    /\ pc = "quote_loop"
    /\ StackLoop(quote_step(state, locals.rev_bind_group))

\* The end of the token loop: funcs and open_higher are created.
TokensEnd ==
    /\ pc = "parse"
    /\ pos > Len(tokens)
    /\ pc' = "walk_state"
    /\ locals' = Locals(<<>>, <<>>, <<>>, NoFunc, 1)
    /\ UNCHANGED <<code, tokens, pos, state, func, panic_msg, parsed_input,
                   result, input, printed>>

\* One iteration of `for hof in state`, up to the inner loop of a
\* HOF::Func; after the last one, the test of open_higher and the return.
WalkStep ==
    /\ pc = "walk_state"
    /\ IF locals.index > Len(state)
       THEN IF locals.open_higher # <<>>
            THEN /\ pc' = "close_open"
                 /\ locals' = [locals EXCEPT !.working_func = Func_Bound(<<>>)]
                 /\ UNCHANGED <<func, panic_msg>>
            ELSE /\ pc' = "done"
                 /\ func' = Func_Bound(locals.funcs)
                 /\ UNCHANGED <<locals, panic_msg>>
       ELSE LET hof == state[locals.index]
                next == [locals EXCEPT !.index = locals.index + 1]
                open(hd) == [next EXCEPT !.open_higher =
                                Append(locals.open_higher, hd)]
            IN  IF hof.kind = "Quote"
                THEN /\ pc' = "panic"
                     /\ panic_msg' =
                            "unreachable: All quotes paired at start of parse"
                     /\ UNCHANGED <<func, locals>>
                ELSE /\ pc' = IF hof.kind = "Func" THEN "walk_func" ELSE pc
                     /\ locals' =
                            CASE hof.kind = "Func" ->
                                    [next EXCEPT !.working_func = hof.func]
                              [] hof.kind = "Higher" -> open(HD_H(hof.op))
                              [] hof.kind = "Double" -> open(HD_D(hof.op))
                              [] hof.kind = "DoubleHalf" ->
                                    open(HD_D2(hof.op, hof.func))
                     /\ UNCHANGED <<func, panic_msg>>
    /\ UNCHANGED <<code, tokens, pos, state, parsed_input, result, input,
                   printed>>

\* One iteration of the inner loop run for a HOF::Func.
WalkFuncStep ==
    /\ pc = "walk_func"
    /\ LET r == walk_func_step(locals)
       IN  /\ locals' = r.locals
           /\ pc' = IF r.break THEN "walk_state" ELSE pc
    /\ UNCHANGED <<code, tokens, pos, state, func, panic_msg, parsed_input,
                   result, input, printed>>

\* One iteration of the closing loop; when it breaks, parse returns.
CloseStep ==
    /\ pc = "close_open"
    /\ LET r == close_step(locals)
       IN  /\ locals' = r.locals
           /\ pc' = IF r.break THEN "done" ELSE pc
           /\ func' = IF r.break THEN Func_Bound(r.locals.funcs) ELSE func
    /\ UNCHANGED <<code, tokens, pos, state, panic_msg, parsed_input, result,
                   input, printed>>

NextSteps ==
    \/ Lex
    \/ TokenStep
    \/ BindStep
    \/ QuoteStep
    \/ TokensEnd
    \/ WalkStep
    \/ WalkFuncStep
    \/ CloseStep

SpecSteps == InitSteps /\ [][NextSteps]_vars

\* A run of parse goes on as long as it has a step to take.
SpecStepsFair == SpecSteps /\ WF_vars(NextSteps)

----------------------------------------------------------------------------
(* The evaluator: a parsed program applied to an input, forward (as run    *)
(* does) or through inverse_execute                                        *)

\* Every program of at most MaxEvalLen letters over EvalAlphabet that
\* parses is evaluated.
MaxEvalLen == 3

EvalAlphabet == {"h", "t", "n", "s", "m", "i", "z"}

\* Programs of the test suite make_2014 (codegolf.rs) and of
\* coverage_code.rs, evaluated on top of the enumerated ones.
EvalTestPrograms == {
    <<"t", "t", "s", "m", "z", "y", "h", "h", "y", "h", "h">>,
    <<"i", "m", "h">>,
    <<"i", "i", "h">>,
    <<"x", "i", "t", "m">>,
    <<"i", "t", "t", "z", "m">>
}

EvalPrograms ==
    {p \in SeqsUpTo(EvalAlphabet, MaxEvalLen) \cup EvalTestPrograms :
        lex(p).ok /\ parse(lex(p).val).ok}

\* Input Integers range over -MaxArg..MaxArg.
MaxArg == 3

EvalArgs ==
    {Object_Int(i) : i \in (-MaxArg)..MaxArg}
        \cup {Object_List(<<>>),
              Object_List(<<Object_Int(1), Object_Int(2)>>),
              Object_List(<<Object_List(<<Object_Int(0)>>), Object_Int(MaxArg)>>),
              Object_List(<<Object_Int(2), Object_List(<<Object_Int(1), Object_Int(0)>>)>>)}

InitEval ==
    /\ code \in EvalPrograms
    /\ tokens = lex(code).val
    /\ pos = Len(tokens) + 1
    /\ state = <<>>
    /\ func = parse(tokens).val
    /\ pc = "done"
    /\ panic_msg = ""
    /\ parsed_input \in EvalArgs
    /\ result = NoObject
    /\ input = <<>>
    /\ printed = <<>>
    /\ locals = NoLocals

\* func.execute(parsed_input)
Execute ==
    /\ pc = "done"
    /\ result' = Func_execute(func, parsed_input)
    /\ pc' = "executed"
    /\ UNCHANGED <<code, tokens, pos, state, func, panic_msg, parsed_input,
                 input, printed, locals>>

\* func.inverse_execute(parsed_input)
InverseExecute ==
    /\ pc = "done"
    /\ result' = Func_inverse_execute(func, parsed_input)
    /\ pc' = "inverted"
    /\ UNCHANGED <<code, tokens, pos, state, func, panic_msg, parsed_input,
                 input, printed, locals>>

NextEval == Execute \/ InverseExecute

SpecEval == InitEval /\ [][NextEval]_vars

----------------------------------------------------------------------------
(* One call of Func::execute or Func::inverse_execute at any depth of an   *)
(* evaluation: the function is any tree of ApplyFuncs, and its argument    *)
(* any Object of ApplyArgs, Errors included (an inner call receives the    *)
(* Error an earlier function returned, as Map(Head) does in `mht` on []).  *)

BasicFuncs == {"Head", "Tail", "Sum", "Product", "PowerSet", "Length",
               "Negate", "Equal", "Combine", "AllPair"}

HigherFuncs == {"Map", "Filter", "Order", "FixedPoint", "Inverse", "Repeat"}

DoubleFuncs == {"While", "Bifurcate"}

\* The bodies given to the Higher operators.
ApplyBodies ==
    {Func_Basic(op) : op \in BasicFuncs}
        \cup {Func_Bound(<<>>),
              Func_Bound(<<Func_Basic("Head"), Func_Basic("Negate")>>),
              Func_Higher("Inverse", Func_Basic("Head")),
              Func_Higher("Inverse", Func_Basic("Tail")),
              Func_Higher("Inverse", Func_Basic("Length")),
              Func_Higher("Map", Func_Basic("Head")),
              Func_Bound(<<Func_Basic("Sum"), Func_Basic("Length")>>)}

\* The bodies given to the Double operators.
ApplyHalves ==
    {Func_Basic("Head"), Func_Basic("Tail"), Func_Basic("Sum"),
     Func_Basic("Length"), Func_Basic("PowerSet"), Func_Bound(<<>>),
     Func_Higher("Inverse", Func_Basic("Head"))}

ApplyFuncs ==
    {Func_Basic(op) : op \in BasicFuncs}
        \cup {Func_Higher(op, body) : op \in HigherFuncs, body \in ApplyBodies}
        \cup {Func_Higher("Inverse", Func_Higher("Inverse", Func_Basic(op))) :
                op \in BasicFuncs}
        \cup {Func_Double(op, func1, func2) :
                op \in DoubleFuncs, func1 \in ApplyHalves, func2 \in ApplyHalves}

\* Argument Integers range over -MaxArg..MaxNat.
MaxNat == 10

ErrorA == Object_Error("Head of empty list")
ErrorB == Object_Error("Divide by zero")

\* Lists of the arguments, nested ones and ones that hold Errors included.
ApplyLists ==
    LET i(n) == Object_Int(n)
        li(s) == Object_List(s)
    IN  {li(<<>>),
         li(<<i(1)>>),
         li(<<i(1), i(2)>>),
         li(<<i(2), i(1)>>),
         li(<<i(1), i(0), i(1)>>),
         li(<<i(MaxArg), i(-1), i(2), i(-1)>>),
         li(<<i(7), i(2)>>),
         li(<<i(5), i(0)>>),
         li(<<li(<<>>)>>),
         li(<<li(<<i(1)>>), i(0)>>),
         li(<<li(<<i(2), i(0)>>), li(<<i(1), i(5)>>), li(<<i(1)>>)>>),
         li(<<li(<<i(0)>>), li(<<>>), li(<<i(1), i(1)>>), i(MaxArg)>>),
         li(<<i(2), li(<<i(1), i(0)>>)>>),
         li(<<i(2), li(<<>>)>>),
         li(<<ErrorA>>),
         li(<<i(1), ErrorB, ErrorA>>),
         li(<<ErrorB, li(<<>>), i(-2), ErrorA, li(<<i(0)>>), i(-2)>>)}

ApplyArgs ==
    {Object_Int(n) : n \in (-MaxArg)..MaxNat}
        \cup ApplyLists \cup {ErrorA, ErrorB}

InitApply ==
    /\ code = <<>>
    /\ tokens = <<>>
    /\ pos = 1
    /\ state = <<>>
    /\ func \in ApplyFuncs
    /\ pc = "done"
    /\ panic_msg = ""
    /\ parsed_input \in ApplyArgs
    /\ result = NoObject
    /\ input = <<>>
    /\ printed = <<>>
    /\ locals = NoLocals

SpecApply == InitApply /\ [][NextEval]_vars

----------------------------------------------------------------------------
(* Product and its inverse on Integers up to the width of the machine      *)
(* integers the code mixes with its BigInt, and on pairs of Integers.      *)

\* Small argument Integers range over -MaxFactored..MaxFactored.
MaxFactored == 40

\* Dividends and divisors range over -MaxDiv..MaxDiv.
MaxDiv == 4

\* Integers around the largest square of an i32: the square of the prime
\* 46337, the square of 46340, and the two largest primes of the i32
\* range.
LargeInts == {46337 * 46337, 46340 * 46340, MaxI32 - 18, MaxI32}

ProductArgs ==
    {Object_Int(n) : n \in ((-MaxFactored)..MaxFactored) \cup LargeInts}
        \cup {Object_List(<<Object_Int(num), Object_Int(den)>>) :
                num \in (-MaxDiv)..MaxDiv, den \in (-MaxDiv)..MaxDiv}

InitProduct ==
    /\ code = <<>>
    /\ tokens = <<>>
    /\ pos = 1
    /\ state = <<>>
    /\ func = Func_Basic("Product")
    /\ pc = "done"
    /\ panic_msg = ""
    /\ parsed_input \in ProductArgs
    /\ result = NoObject
    /\ input = <<>>
    /\ printed = <<>>
    /\ locals = NoLocals

SpecProduct == InitProduct /\ [][NextEval]_vars

----------------------------------------------------------------------------
(* The text of a value: Display for Object and Object::from_str.  A text   *)
(* is a sequence of one-letter strings.                                    *)

Digits == <<"0", "1", "2", "3", "4", "5", "6", "7", "8", "9">>

IsDigit(c) == \E d \in 1..Len(Digits) : Digits[d] = c

DigitValue(c) == (CHOOSE d \in 1..Len(Digits) : Digits[d] = c) - 1

\* write!(f, "{}", i) of a non-negative BigInt: its decimal digits, no
\* leading zero.
RECURSIVE fmt_digits(_)
fmt_digits(n) ==
    IF n < 10 THEN <<Digits[n + 1]>>
    ELSE fmt_digits(n \div 10) \o <<Digits[(n % 10) + 1]>>

\* The reason of an Error is one letter of the text: no operation reads
\* inside it.
RECURSIVE fmt(_)
RECURSIVE fmt_elems(_, _)
fmt_elems(l, index) ==
    IF index > Len(l) THEN <<>>
    ELSE (IF index > 1 THEN <<",", " ">> ELSE <<>>)
             \o fmt(l[index]) \o fmt_elems(l, index + 1)

\* Display::fmt
fmt(obj) ==
    CASE obj.kind = "Int" ->
            IF obj.i < 0 THEN <<"-">> \o fmt_digits(-obj.i)
            ELSE fmt_digits(obj.i)
      [] obj.kind = "List" -> <<"[">> \o fmt_elems(obj.l, 1) \o <<"]">>
      [] obj.kind = "Error" ->
            <<"E", "r", "r", "o", "r", ":", " ">> \o <<obj.e>>

RECURSIVE digits_value(_)
digits_value(s) ==
    IF s = <<>> THEN 0
    ELSE 10 * digits_value(SubSeq(s, 1, Len(s) - 1)) + DigitValue(s[Len(s)])

\* string.parse::<BigInt>() on a text of digits, '-', '[', ']', ',' and
\* ' ': an optional '-' and then one or more digits, anything else an Err.
parse_BigInt(string) ==
    LET negative == string # <<>> /\ string[1] = "-"
        body == IF negative THEN Tail(string) ELSE string
    IN  IF body # <<>> /\ \A k \in 1..Len(body) : IsDigit(body[k])
        THEN [ok |-> TRUE,
              val |-> IF negative THEN -digits_value(body)
                      ELSE digits_value(body)]
        ELSE [ok |-> FALSE, val |-> 0]

\* str::contains(char)
contains(string, c) == \E k \in 1..Len(string) : string[k] = c

\* str::trim: the only whitespace of a text is ' '.
RECURSIVE trim_start(_)
trim_start(string) ==
    IF string # <<>> /\ string[1] = " " THEN trim_start(Tail(string))
    ELSE string

RECURSIVE trim_end(_)
trim_end(string) ==
    IF string # <<>> /\ string[Len(string)] = " "
    THEN trim_end(SubSeq(string, 1, Len(string) - 1))
    ELSE string

trim(string) == trim_end(trim_start(string))

\* The index, counted from 0, of the first c at or after index cursor:
\* chars().enumerate().skip(cursor).filter(|(_, x)| *x == c).next(),
\* with -1 for None.
find_from(string, cursor, c) ==
    LET hits == {k \in (cursor + 1)..Len(string) : string[k] = c}
    IN  IF hits = {} THEN -1
        ELSE (CHOOSE k \in hits : \A h \in hits : k <= h) - 1

\* str::split(c): the pieces between the occurrences of c, empty pieces
\* included.
RECURSIVE split(_, _)
split(string, c) ==
    LET k == find_from(string, 0, c)
    IN  IF k < 0 THEN <<string>>
        ELSE <<SubSeq(string, 1, k)>>
                 \o split(SubSeq(string, k + 2, Len(string)), c)

RECURSIVE from_str(_)
RECURSIVE from_str_split(_, _)
RECURSIVE from_str_loop(_, _, _)

\* for element_string in sub_string.split(',') { ... }
from_str_split(elements, sub_vec) ==
    IF elements = <<>> THEN Object_List(sub_vec)
    ELSE LET trimmed == trim(Head(elements))
         IN  IF trimmed = <<>> THEN from_str_split(Tail(elements), sub_vec)
             ELSE LET sub_elem == from_str(trimmed)
                  IN  IF IsAbort(sub_elem) THEN sub_elem
                      ELSE from_str_split(Tail(elements),
                                          Append(sub_vec, sub_elem))

\* loop { ... } of from_str: cursor counts from 0, sub_string[a..b] is
\* SubSeq(sub_string, a + 1, b).
from_str_loop(sub_string, cursor, sub_vec) ==
    LET bracket_index == find_from(sub_string, cursor, "[")
        inner == IF bracket_index >= 0
                 THEN trim(SubSeq(sub_string, cursor + 1, bracket_index))
                 ELSE trim(SubSeq(sub_string, cursor + 1, Len(sub_string)))
        inner_obj == from_str(inner)
    IN  IF IsAbort(inner_obj) THEN inner_obj
        ELSE IF inner_obj.kind # "List" THEN Abort("Inner is list")
        ELSE IF bracket_index < 0
        THEN Object_List(sub_vec \o inner_obj.l)
        ELSE LET next_close == find_from(sub_string, bracket_index, "]")
             IN  IF next_close < 0 THEN Abort("Open has close")
                 ELSE LET elem == from_str(trim(SubSeq(sub_string,
                                      bracket_index + 1, next_close + 1)))
                      IN  IF IsAbort(elem) THEN elem
                          ELSE from_str_loop(sub_string, next_close + 1,
                                   (sub_vec \o inner_obj.l) \o <<elem>>)

\* Object::from_str
from_str(string) ==
    IF string = <<>> THEN Object_List(<<>>)
    ELSE IF ~contains(string, "[") /\ ~contains(string, ",")
    THEN LET integer == parse_BigInt(string)
         IN  IF integer.ok THEN Object_Int(integer.val)
             ELSE Abort("Nonlist should be int")
    ELSE IF string[1] = "[" /\ string[Len(string)] # "]"
    THEN Abort("Object string should have matched brackets")
    ELSE LET sub_string == IF string[1] = "["
                           THEN SubSeq(string, 2, Len(string) - 1)
                           ELSE string
         IN  IF ~contains(sub_string, "[")
             THEN from_str_split(split(sub_string, ","), <<>>)
             ELSE from_str_loop(sub_string, 0, <<>>)

----------------------------------------------------------------------------
(* run on the empty program: the input text is parsed, handed to the       *)
(* Func the empty program parses to, and what that returns is printed.     *)

\* The input texts have at most MaxText letters ...
MaxText == 4

TextAlphabet == {"0", "1", "-", "[", "]", ",", " "}

\* ... or are the text of one of these Values: Integers of one and more
\* digits of either sign, Lists empty, flat and nested one, two and three
\* deep, and the corpus of obj_roundtrip and obj_nested_first with its
\* 45-digit Integer cut to eight digits.
TextValues ==
    LET i(n) == Object_Int(n)
        li(s) == Object_List(s)
    IN  {i(0), i(7), i(-1), i(10), i(-312), i(91),
         li(<<>>), li(<<i(1)>>), li(<<i(1), i(2)>>), li(<<i(-1), i(0)>>),
         li(<<li(<<>>)>>), li(<<li(<<>>), li(<<>>)>>),
         li(<<li(<<i(1)>>)>>), li(<<li(<<i(1)>>), i(2)>>),
         li(<<i(1), li(<<i(2)>>)>>),
         li(<<li(<<i(1), i(2)>>), li(<<>>), i(-3), li(<<i(4)>>)>>),
         li(<<i(1), i(2), li(<<i(-1), i(0), i(2)>>), i(91), i(-31237091)>>),
         li(<<li(<<i(-1), i(0), i(2)>>), i(91), i(-31237091)>>),
         li(<<li(<<li(<<>>)>>)>>), li(<<li(<<li(<<i(1)>>)>>)>>),
         li(<<li(<<i(1), li(<<i(2)>>)>>), i(3)>>),
         li(<<i(1), li(<<i(2), li(<<i(3)>>)>>)>>),
         li(<<li(<<li(<<li(<<i(1)>>)>>)>>)>>)}

Texts == SeqsUpTo(TextAlphabet, MaxText) \cup {fmt(v) : v \in TextValues}

InitText ==
    /\ code = <<>>
    /\ tokens = lex(code).val
    /\ pos = Len(tokens) + 1
    /\ state = <<>>
    /\ func = parse(tokens).val
    /\ pc = "input"
    /\ panic_msg = ""
    /\ parsed_input = NoObject
    /\ result = NoObject
    /\ input \in Texts
    /\ printed = <<>>
    /\ locals = NoLocals

\* let parsed_input: Object = Object::from_str(input);
FromStr ==
    /\ pc = "input"
    /\ LET parsed == from_str(input)
       IN  IF IsAbort(parsed)
           THEN /\ pc' = "panic"
                /\ panic_msg' = parsed.msg
                /\ UNCHANGED parsed_input
           ELSE /\ pc' = "done"
                /\ parsed_input' = parsed
                /\ UNCHANGED panic_msg
    /\ UNCHANGED <<code, tokens, pos, state, func, result, input, printed,
                   locals>>

\* format!("{}", output)
Format ==
    /\ pc = "executed"
    /\ printed' = fmt(result)
    /\ pc' = "printed"
    /\ UNCHANGED <<code, tokens, pos, state, func, panic_msg, parsed_input,
                   result, input, locals>>

NextText == FromStr \/ Execute \/ Format

SpecText == InitText /\ [][NextText]_vars

----------------------------------------------------------------------------
(* Vocabulary of the properties.                                           *)

F_Head == Func_Basic("Head")
F_Tail == Func_Basic("Tail")
F_Map(body) == Func_Higher("Map", body)
F_Inverse(body) == Func_Higher("Inverse", body)
F_Bifurcate(func1, func2) == Func_Double("Bifurcate", func1, func2)
Empty == Func_Bound(<<>>)

Parsed == pc = "done"
Program(p) == code = p

\* The program holds no z and no q.
NoBoundToken == \A i \in 1..Len(tokens) : tokens[i].kind # "Bound"

\* The stack entry a Basic, Higher or Double token pushes.
EntryOf(token) ==
    CASE token.kind = "Basic" -> HOF_Func(Func_Basic(token.op))
      [] token.kind = "Higher" -> HOF_Higher(token.op)
      [] token.kind = "Double" -> HOF_Double(token.op)

\* Reading a sequence of stack entries (no Quote among them) left to right:
\* the next complete function from entry i on, and the entry after it.  A
\* Func is complete; a Higher is complete with the next complete function
\* as body; a Double with the next two; a DoubleHalf with the next one; what
\* is missing at the end of the sequence is Bound([]).
RECURSIVE NextComplete(_, _)
NextComplete(es, i) ==
    IF i > Len(es) THEN [f |-> Empty, next |-> i]
    ELSE CASE es[i].kind = "Func" -> [f |-> es[i].func, next |-> i + 1]
           [] es[i].kind = "Higher" ->
                LET b == NextComplete(es, i + 1) IN
                [f |-> Func_Higher(es[i].op, b.f), next |-> b.next]
           [] es[i].kind = "Double" ->
                LET l == NextComplete(es, i + 1)
                    r == NextComplete(es, l.next)
                IN  [f |-> Func_Double(es[i].op, l.f, r.f), next |-> r.next]
           [] es[i].kind = "DoubleHalf" ->
                LET r == NextComplete(es, i + 1) IN
                [f |-> Func_Double(es[i].op, es[i].func, r.f), next |-> r.next]

\* The complete functions of a sequence of entries, in order.
RECURSIVE CompleteFrom(_, _)
CompleteFrom(es, i) ==
    IF i > Len(es) THEN <<>>
    ELSE LET c == NextComplete(es, i) IN <<c.f>> \o CompleteFrom(es, c.next)

\* The nodes of a tree in pre-order: an operator before its bodies, the left
\* body before the right one, the elements of a Bound left to right; a Bound
\* itself is no node.
RECURSIVE PreOrder(_)
RECURSIVE PreOrderAll(_, _)
PreOrder(f) ==
    CASE f.kind = "Basic" -> <<f>>
      [] f.kind = "Higher" -> <<f>> \o PreOrder(f.body)
      [] f.kind = "Double" -> <<f>> \o PreOrder(f.func1) \o PreOrder(f.func2)
      [] f.kind = "Bound" -> PreOrderAll(f.funcs, 1)
PreOrderAll(fs, i) ==
    IF i > Len(fs) THEN <<>> ELSE PreOrder(fs[i]) \o PreOrderAll(fs, i + 1)

Size(f) == Len(PreOrder(f))

\* The function that starts at token i, or Bound([]) past the last token.
NodeAt(nodes, i) == IF i > Len(nodes) THEN Empty ELSE nodes[i]

\* f holds a synthetic empty body somewhere.
RECURSIVE HasEmptyBody(_)
HasEmptyBody(f) ==
    CASE f.kind = "Basic" -> FALSE
      [] f.kind = "Higher" -> f.body = Empty \/ HasEmptyBody(f.body)
      [] f.kind = "Double" ->
            \/ f.func1 = Empty \/ f.func2 = Empty
            \/ HasEmptyBody(f.func1) \/ HasEmptyBody(f.func2)
      [] f.kind = "Bound" -> \E i \in 1..Len(f.funcs) : HasEmptyBody(f.funcs[i])

----------------------------------------------------------------------------
(* End of stream without z and q                                           *)

\* C2: in a program with no z and no q the result is the left-to-right
\* reading of the tokens in which every Higher takes exactly the next
\* complete function as its unwrapped body (Bound([]) when nothing follows)
\* and what follows that body stays a separate top-level element.
C2_HigherTakesNextFunction ==
    /\ (Parsed /\ NoBoundToken) =>
          func = Func_Bound(CompleteFrom([i \in 1..Len(tokens) |-> EntryOf(tokens[i])], 1))
    /\ (Parsed /\ Program(<<"m", "h", "h", "m">>)) =>
          func = Func_Bound(<<F_Map(F_Head), F_Head, F_Map(Empty)>>)
    /\ (Parsed /\ Program(<<"m", "m", "m">>)) =>
          func = Func_Bound(<<F_Map(F_Map(F_Map(Empty)))>>)

C2_Witness ==
    /\ Parsed /\ Program(<<"m", "h", "h", "m">>)
    /\ func = Func_Bound(<<F_Map(F_Head), F_Head, F_Map(Empty)>>)

\* C3 as stated: an open Higher absorbs all remaining atoms, so nothing
\* after the first Higher of a program without z and q stays outside it.
C3_AbsorbsAllRemaining ==
    (Parsed /\ NoBoundToken) =>
        \A i \in 1..Len(tokens) :
            (tokens[i].kind = "Higher" /\ \A j \in 1..(i - 1) : tokens[j].kind = "Basic")
                => Len(func.funcs) = i

\* C3 as amended: in a program with no z and no q, the body of the Higher at
\* token i is exactly the one function that starts at token i + 1, later
\* tokens lie outside it, and the body is Bound([]) exactly when the Higher
\* is the last token.
C3_AbsorbsNextFunctionOnly ==
    (Parsed /\ NoBoundToken) =>
        LET nodes == PreOrder(func) IN
        /\ Len(nodes) = Len(tokens)
        /\ \A i \in 1..Len(tokens) :
              tokens[i].kind = "Higher" =>
                /\ nodes[i].kind = "Higher" /\ nodes[i].op = tokens[i].op
                /\ nodes[i].body = NodeAt(nodes, i + 1)
                /\ Size(nodes[i]) = 1 + Size(NodeAt(nodes, i + 1))
                /\ (nodes[i].body = Empty) <=> (i = Len(tokens))

C3_Witness ==
    /\ Parsed /\ Program(<<"m", "h", "t">>)
    /\ func = Func_Bound(<<F_Map(F_Head), F_Tail>>)

\* C10: in a program with no z and no q, the Double at token i has as left
\* body the function that starts at token i + 1 and as right body the one
\* that starts right after the left body, each Bound([]) when the tokens
\* have run out; only the last top-level function holds empty bodies.
C10_DoubleTakesNextTwoFunctions ==
    /\ (Parsed /\ NoBoundToken) =>
          LET nodes == PreOrder(func) IN
          /\ Len(nodes) = Len(tokens)
          /\ \A i \in 1..Len(tokens) :
                tokens[i].kind = "Double" =>
                  /\ nodes[i].kind = "Double" /\ nodes[i].op = tokens[i].op
                  /\ nodes[i].func1 = NodeAt(nodes, i + 1)
                  /\ nodes[i].func2 = NodeAt(nodes, i + 1 + Size(nodes[i].func1))
          /\ \A k \in 1..(Len(func.funcs) - 1) : ~HasEmptyBody(func.funcs[k])
    /\ (Parsed /\ Program(<<"b">>)) => func = Func_Bound(<<F_Bifurcate(Empty, Empty)>>)
    /\ (Parsed /\ Program(<<"b", "h">>)) => func = Func_Bound(<<F_Bifurcate(F_Head, Empty)>>)

C10_Witness ==
    /\ Parsed /\ Program(<<"m", "b", "h", "m">>)
    /\ func = Func_Bound(<<F_Map(F_Bifurcate(F_Head, F_Map(Empty)))>>)

----------------------------------------------------------------------------
(* Bound1                                                                  *)

\* The token loop is about to handle a token equal to t.
Handling(t) == pc = "parse" /\ pos <= Len(tokens) /\ tokens[pos] = t

\* The last token handled was t, and parsing went on.
Handled(t) == pc = "parse" /\ pos > 1 /\ tokens[pos - 1] = t

IsOpen(elem) == elem.kind \in {"Higher", "Double", "DoubleHalf"}

\* Index of the topmost stack entry that is not a Func, 0 if there is none.
TopNonFunc(st) ==
    IF \E i \in 1..Len(st) : ~is_func(st[i])
    THEN CHOOSE i \in 1..Len(st) :
            ~is_func(st[i]) /\ \A j \in (i + 1)..Len(st) : is_func(st[j])
    ELSE 0

\* The Funcs of consecutive Func entries st[from..to], in stack order.
FuncsOf(st, from, to) == [k \in 1..(to - from + 1) |-> st[from + k - 1].func]

\* An open operator closed over a body.
Closed(elem, body) ==
    CASE elem.kind = "Higher" -> HOF_Func(Func_Higher(elem.op, body))
      [] elem.kind = "Double" -> HOF_DoubleHalf(elem.op, body)
      [] elem.kind = "DoubleHalf" -> HOF_Func(Func_Double(elem.op, elem.func, body))

\* C4: z replaces the topmost open operator and the Funcs above it by that
\* operator closed over Bound of those Funcs in textual order; the entries
\* below it stay as they are.
C4_Bound1ClosesNearestOpen ==
    [][ (Handling(Token_Bound("Bound1")) /\ TopNonFunc(state) # 0
            /\ IsOpen(state[TopNonFunc(state)]))
        => LET j == TopNonFunc(state)
               body == Func_Bound(FuncsOf(state, j + 1, Len(state)))
           IN  /\ pc' = "parse" /\ pos' = pos + 1
               /\ state' = Append(SubSeq(state, 1, j - 1), Closed(state[j], body))
      ]_vars

\* z has just closed a Double over two Funcs while a Higher stays open below.
C4_Witness ==
    /\ Handled(Token_Bound("Bound1"))
    /\ state = <<HOF_Higher("Map"),
                 HOF_DoubleHalf("Bifurcate", Func_Bound(<<F_Head, F_Tail>>))>>

\* C5: z with no open operator on the stack, or with a Quote above the
\* topmost open operator, aborts the parse: no tree is ever returned.
C5_Bound1NothingToClose ==
    /\ [][ (Handling(Token_Bound("Bound1"))
              /\ (TopNonFunc(state) = 0 \/ is_quote(state[TopNonFunc(state)])))
           => /\ pc' = "panic" /\ func' = NoFunc
              /\ panic_msg' = IF TopNonFunc(state) = 0
                              THEN "Bind reached front" ELSE "Bind reached quote"
         ]_vars
    /\ [](pc = "panic" => func = NoFunc)

C5_Witness ==
    /\ pc = "panic" /\ panic_msg = "Bind reached quote" /\ func = NoFunc
    /\ pos <= Len(tokens) /\ tokens[pos] = Token_Bound("Bound1")
    /\ \E i \in 1..Len(state) : IsOpen(state[i])

----------------------------------------------------------------------------
(* lex                                                                     *)

BasicLetters == {"a", "c", "e", "h", "l", "n", "p", "s", "t", "y"}
HigherLetters == {"f", "i", "m", "o", "r", "x"}
DoubleLetters == {"b", "w"}

\* lex has returned.
Lexed == pc \in {"parse", "done"} \/ (pc = "panic" /\ panic_msg # "Lex")

Positions(seq, x) == {i \in 1..Len(seq) : seq[i] = x}
Least(S) == CHOOSE i \in S : \A j \in S : i <= j

\* C6: one token per letter, in order; with an odd number of q the first q,
\* and only it, is SoloQuote; with an even number there is none.  So the
\* stream holds an even number of BoundQuote and at most one SoloQuote,
\* which precedes every BoundQuote.
C6_LexQuoteRetagging ==
    Lexed =>
        LET qs == Positions(code, "q")
            odd == Cardinality(qs) % 2 = 1
            solos == Positions(tokens, Token_Bound("SoloQuote"))
            pairs == Positions(tokens, Token_Bound("BoundQuote"))
        IN  /\ Len(tokens) = Len(code)
            /\ \A i \in 1..Len(code) :
                  /\ code[i] \in BasicLetters => tokens[i].kind = "Basic"
                  /\ code[i] \in HigherLetters => tokens[i].kind = "Higher"
                  /\ code[i] \in DoubleLetters => tokens[i].kind = "Double"
                  /\ code[i] = "z" => tokens[i] = Token_Bound("Bound1")
                  /\ code[i] = "q" =>
                        tokens[i] = IF odd /\ i = Least(qs)
                                    THEN Token_Bound("SoloQuote")
                                    ELSE Token_Bound("BoundQuote")
                  /\ code[i] # "q" => tokens[i].op \notin {"SoloQuote", "BoundQuote"}
            /\ Cardinality(pairs) % 2 = 0
            /\ Cardinality(solos) <= 1
            /\ \A i \in solos : \A j \in pairs : i < j

\* Three q: the first is retagged, the other two stay paired.
C6_Witness ==
    /\ Lexed
    /\ Cardinality(Positions(code, "q")) = 3
    /\ \E i \in 1..Len(tokens) : \E j \in (i + 1)..Len(tokens) :
          tokens[i] = Token_Bound("SoloQuote") /\ tokens[j] = Token_Bound("BoundQuote")

----------------------------------------------------------------------------
(* Quotes                                                                  *)

\* Index of the leftmost stack entry that is not a Func, 0 if there is none.
LeftmostNonFunc(st) ==
    IF \E i \in 1..Len(st) : ~is_func(st[i])
    THEN Least({i \in 1..Len(st) : ~is_func(st[i])})
    ELSE 0

\* Index of the Quote marker of the stack, 0 if there is none.
QuoteIndex(st) ==
    IF \E i \in 1..Len(st) : is_quote(st[i])
    THEN Least({i \in 1..Len(st) : is_quote(st[i])})
    ELSE 0

AllFuncs(st, from, to) == \A k \in from..to : is_func(st[k])

\* The body a closing quote builds from the entries above index q.
GroupBody(st, q) == Func_Bound(CompleteFrom(SubSeq(st, q + 1, Len(st)), 1))

\* The last body of the entry on top of the stack.
TopBody(st) ==
    LET top == Last(st) IN
    CASE top.kind = "DoubleHalf" -> top.func
      [] top.kind = "Func" /\ top.func.kind = "Higher" -> top.func.body
      [] top.kind = "Func" /\ top.func.kind = "Double" -> top.func.func2

\* C7: the SoloQuote closes the leftmost open operator of the stack over
\* Bound of everything above it, inner open operators resolved; it never
\* panics when the stack holds an open operator, and is rejected otherwise.
C7_SoloQuoteClosesLeftmostOpen ==
    /\ [][ Handling(Token_Bound("SoloQuote")) =>
            LET j == LeftmostNonFunc(state) IN
            IF j = 0
            THEN pc' = "panic" /\ panic_msg' = "SoloQuote has no preceeding unbound"
            ELSE /\ IsOpen(state[j])
                 /\ pc' = "parse" /\ pos' = pos + 1
                 /\ state' = Append(SubSeq(state, 1, j - 1),
                                    Closed(state[j], GroupBody(state, j)))
         ]_vars
    /\ []((Parsed /\ Program(<<"i", "h", "m", "h", "m", "h", "m", "h", "z", "h", "z", "h", "q">>))
            => func = Func_Bound(<<F_Inverse(Func_Bound(<<
                    F_Head,
                    F_Map(F_Head),
                    F_Map(Func_Bound(<<F_Head, F_Map(Func_Bound(<<F_Head>>)), F_Head>>)),
                    F_Head>>))>>))

\* The SoloQuote has closed a Double whose left body holds what followed it,
\* an inner open Map included.
C7_Witness ==
    /\ Handled(Token_Bound("SoloQuote"))
    /\ state = <<HOF_Func(F_Head),
                 HOF_DoubleHalf("Bifurcate", Func_Bound(<<F_Map(F_Tail)>>))>>

\* C8: the first q of a pair pushes a Quote; the second closes the entry
\* right below the marker over Bound of the quoted functions in textual order:
\* a Higher, Double or DoubleHalf as z would, a Func lying directly on a
\* Double as the right body next to that Func as unwrapped left body; any
\* other position of the marker is a program error.
C8_PairedQuoteCloses ==
    [][ Handling(Token_Bound("BoundQuote")) =>
          LET q == QuoteIndex(state)
              n == Len(state)
              body == IF AllFuncs(state, q + 1, n)
                      THEN Func_Bound(FuncsOf(state, q + 1, n))
                      ELSE GroupBody(state, q)
          IN  IF q = 0
              THEN pc' = "parse" /\ pos' = pos + 1 /\ state' = Append(state, HOF_Quote)
              ELSE CASE q >= 2 /\ IsOpen(state[q - 1]) ->
                     /\ pc' = "parse" /\ pos' = pos + 1
                     /\ state' = Append(SubSeq(state, 1, q - 2),
                                        Closed(state[q - 1], body))
                [] q >= 3 /\ is_func(state[q - 1]) /\ state[q - 2].kind = "Double" ->
                     /\ pc' = "parse" /\ pos' = pos + 1
                     /\ state' = Append(SubSeq(state, 1, q - 3),
                           HOF_Func(Func_Double(state[q - 2].op,
                                                state[q - 1].func, body)))
                [] OTHER -> pc' = "panic" /\ func' = NoFunc
      ]_vars

\* The second q has closed a Func lying on a Double.
C8_Witness ==
    /\ Handled(Token_Bound("BoundQuote"))
    /\ Program(<<"b", "h", "q", "t", "q">>)
    /\ state = <<HOF_Func(F_Bifurcate(F_Head, Func_Bound(<<F_Tail>>)))>>

\* C9: when a closing quote meets open operators above its marker, the body
\* it builds reads them left to right: a Higher takes the next function as
\* unwrapped body, a Double the next two, a DoubleHalf the next one, each
\* missing body being Bound([]).
C9_OpenOperatorsInsideQuote ==
    /\ [][ ((Handling(Token_Bound("BoundQuote")) \/ Handling(Token_Bound("SoloQuote")))
              /\ pc' = "parse"
              /\ LET q == IF tokens[pos] = Token_Bound("SoloQuote")
                          THEN LeftmostNonFunc(state) ELSE QuoteIndex(state)
                 IN  q # 0 /\ ~AllFuncs(state, q + 1, Len(state)))
           => LET q == IF tokens[pos] = Token_Bound("SoloQuote")
                       THEN LeftmostNonFunc(state) ELSE QuoteIndex(state)
              IN  TopBody(state') = GroupBody(state, q)
         ]_vars
    /\ []((Parsed /\ Program(<<"m", "b", "q">>))
            => func = Func_Bound(<<F_Map(Func_Bound(<<F_Bifurcate(Empty, Empty)>>))>>))
    /\ []((Parsed /\ Program(<<"m", "b", "h", "q">>))
            => func = Func_Bound(<<F_Map(Func_Bound(<<F_Bifurcate(F_Head, Empty)>>))>>))

\* A paired quote has resolved an open Double followed by one function.
C9_Witness ==
    /\ Handled(Token_Bound("BoundQuote"))
    /\ Program(<<"m", "q", "b", "h", "q">>)
    /\ state = <<HOF_Func(F_Map(Func_Bound(<<F_Bifurcate(F_Head, Empty)>>)))>>

----------------------------------------------------------------------------
(* Composition                                                             *)

F_Negate == Func_Basic("Negate")

Executed == pc = "executed"
Inverted == pc = "inverted"

\* The functions of fs applied one by one, the last one first.
RECURSIVE ApplyLastToFirst(_, _)
ApplyLastToFirst(fs, v) ==
    IF fs = <<>> THEN v
    ELSE Func_execute(fs[1], ApplyLastToFirst(Tail(fs), v))

\* The inverses of the functions of fs applied one by one, the first one
\* first.
RECURSIVE ApplyInversesFirstToLast(_, _)
ApplyInversesFirstToLast(fs, v) ==
    IF fs = <<>> THEN v
    ELSE ApplyInversesFirstToLast(Tail(fs), Func_inverse_execute(fs[1], v))

\* C1: executing Bound(funcs) applies funcs[last] first and funcs[0] last;
\* inverting it applies the inverse of funcs[0] first and that of
\* funcs[last] last; Bound([]) returns its argument both ways.
C1_CompositionOrder ==
    /\ (Executed /\ func.kind = "Bound") =>
            result = ApplyLastToFirst(func.funcs, parsed_input)
    /\ (Inverted /\ func.kind = "Bound") =>
            result = ApplyInversesFirstToLast(func.funcs, parsed_input)
    /\ ((Executed \/ Inverted) /\ func = Empty) => result = parsed_input
    /\ (Executed /\ parsed_input = Object_Int(0)
            /\ Program(<<"t", "t", "s", "m", "z", "y", "h", "h", "y", "h", "h">>))
        => result = Object_Int(2014)

\* Head after Negate: -3 + 1, not -(3 + 1).
C1_Witness ==
    /\ Executed
    /\ func = Func_Bound(<<F_Head, F_Negate>>)
    /\ parsed_input = Object_Int(3)
    /\ result = Object_Int(-2)

----------------------------------------------------------------------------
(* Errors through the primitives                                           *)

F_Basic(op) == Func_Basic(op)
F_Sum == Func_Basic("Sum")

\* The call returned: it neither panicked nor left the bounds of the model.
Returned == (Executed \/ Inverted) /\ ~IsAbort(result)

\* C11: each of the ten Basic primitives returns an Error argument
\* unchanged, forward and inverted, except the inverse of Sum, which wraps
\* its argument, an Error included, in a one-element List.
C11_ErrorThroughPrimitives ==
    \A op \in BasicFuncs :
        (func = F_Basic(op) /\ is_error(parsed_input)) =>
            /\ Executed => result = parsed_input
            /\ (Inverted /\ op # "Sum") => result = parsed_input
            /\ (Inverted /\ op = "Sum") => result = Object_List(<<parsed_input>>)

C11_Witness ==
    /\ Inverted
    /\ func = F_Sum
    /\ parsed_input = ErrorB
    /\ result = Object_List(<<ErrorB>>)

----------------------------------------------------------------------------
(* Errors through Map, Filter and Order                                    *)

F_Filter(body) == Func_Higher("Filter", body)
F_Order(body) == Func_Higher("Order", body)

\* Forward Map, Filter or Order has been applied to an Error.
SequenceOpOnError ==
    /\ Executed
    /\ func.kind = "Higher"
    /\ func.op \in {"Map", "Filter", "Order"}
    /\ is_error(parsed_input)

\* C12: forward Map(body), Filter(body) and Order(body) return an Error
\* argument unchanged, whatever the body, and to_list is not called on it.
C12_ErrorThroughMapFilterOrder ==
    SequenceOpOnError => result = parsed_input

\* C12, what the code does: the three operators hand the Error to to_list,
\* which panics, so no value is returned.
C12_SequenceOpPanicsOnError ==
    SequenceOpOnError => result = Abort("to_list called on Error")

C12_Witness ==
    /\ Executed
    /\ func = F_Map(F_Head)
    /\ parsed_input = ErrorA
    /\ result = Abort("to_list called on Error")

----------------------------------------------------------------------------
(* Map                                                                     *)

\* as_sequence: the elements of a List; 0 .. n-1 for an Integer n >= 0 and
\* |n|-1 .. 0 for an Integer n < 0.
AsSequence(v) ==
    CASE is_list(v) -> v.l
      [] is_int(v) /\ v.i >= 0 -> [k \in 1..v.i |-> Object_Int(k - 1)]
      [] is_int(v) /\ v.i < 0 -> [k \in 1..(-v.i) |-> Object_Int((-v.i) - k)]

\* The body P applied to each element of s.
Each(P, s) == [k \in 1..Len(s) |-> Func_execute(P, s[k])]

\* C13: for a non-Error v with s = as_sequence(v), forward Map(P) returns
\* the List [P(s[0]), ..., P(s[k-1])], as long as s, when no P(s[i]) is an
\* Error, and otherwise the Error P(s[i]) of the smallest such i.
C13_MapResult ==
    (Returned /\ Executed /\ func.kind = "Higher" /\ func.op = "Map"
        /\ ~is_error(parsed_input)) =>
        LET s == AsSequence(parsed_input)
            out == Each(func.body, s)
        IN  IF \A k \in 1..Len(s) : ~is_error(out[k])
            THEN /\ result = Object_List(out)
                 /\ Len(result.l) = Len(s)
            ELSE \E k \in 1..Len(s) :
                    /\ is_error(out[k])
                    /\ \A j \in 1..(k - 1) : ~is_error(out[j])
                    /\ result = out[k]

\* Head maps [1, ErrorB, ErrorA] to [2, ErrorB, ErrorA]: ErrorB comes first.
C13_Witness ==
    /\ Executed
    /\ func = F_Map(F_Head)
    /\ parsed_input = Object_List(<<Object_Int(1), ErrorB, ErrorA>>)
    /\ result = ErrorB

----------------------------------------------------------------------------
(* Order                                                                   *)

\* The order key of the body P applied to x.
KeyUnder(P, x) == to_key(Func_execute(P, x))

\* t holds the elements of s in the order given by the bijection p:
\* t[k] = s[p[k]].
PermutedBy(p, s, t) ==
    /\ Len(t) = Len(s)
    /\ \A k \in 1..Len(s) : p[k] \in 1..Len(s) /\ t[k] = s[p[k]]
    /\ \A j, k \in 1..Len(s) : j # k => p[j] # p[k]

\* Forward Order(P) has returned on a non-Error argument.
Ordered ==
    /\ Returned /\ Executed
    /\ func.kind = "Higher" /\ func.op = "Order"
    /\ ~is_error(parsed_input)

\* The place of s[i] in the stable order of s by key under P: behind every
\* element of smaller key and every earlier element of equal key.
Rank(P, s, i) ==
    1 + Cardinality({j \in 1..Len(s) :
            LET c == key_cmp(KeyUnder(P, s[j]), KeyUnder(P, s[i]))
            IN  c < 0 \/ (c = 0 /\ j < i)})

\* C14: forward Order(P) on a non-Error v returns a permutation of
\* as_sequence(v) whose keys under P do not decrease and in which elements
\* of equal key keep their input order; ordering the result again returns
\* the same result.
C14_OrderStableIdempotent ==
    Ordered =>
        LET s == AsSequence(parsed_input)
            P == func.body
        IN  /\ is_list(result)
            /\ Len(s) < 2 => result.l = s
            /\ Len(s) >= 2 =>
                    \E p \in {[k \in 1..Len(s) |->
                                CHOOSE i \in 1..Len(s) : Rank(P, s, i) = k]} :
                        /\ PermutedBy(p, s, result.l)
                        /\ \A j, k \in 1..Len(s) :
                            j < k =>
                                LET c == key_cmp(KeyUnder(P, result.l[j]),
                                                 KeyUnder(P, result.l[k]))
                                IN  c < 0 \/ (c = 0 /\ p[j] < p[k])
            /\ Func_execute(func, result) = result

\* [2, 0] and [1, 5] have the same Length and keep their input order,
\* though [1, 5] has the smaller key of its own.
C14_Witness ==
    /\ Executed
    /\ func = F_Order(Func_Basic("Length"))
    /\ parsed_input =
            Object_List(<<Object_List(<<Object_Int(2), Object_Int(0)>>),
                          Object_List(<<Object_Int(1), Object_Int(5)>>),
                          Object_List(<<Object_Int(1)>>)>>)
    /\ result =
            Object_List(<<Object_List(<<Object_Int(1)>>),
                          Object_List(<<Object_Int(2), Object_Int(0)>>),
                          Object_List(<<Object_Int(1), Object_Int(5)>>)>>)

----------------------------------------------------------------------------
(* The order of the values                                                 *)

\* The order of the values in words: Integers before Lists before Errors,
\* Integers by value, Lists element by element with a proper prefix first,
\* all Errors alike.
RECURSIVE Precedes(_, _)
RECURSIVE ListPrecedes(_, _, _)
Precedes(a, b) ==
    CASE is_int(a) -> IF is_int(b) THEN a.i <= b.i ELSE TRUE
      [] is_list(a) ->
            IF is_int(b) THEN FALSE
            ELSE IF is_list(b) THEN ListPrecedes(a.l, b.l, 1)
            ELSE TRUE
      [] is_error(a) -> is_error(b)
ListPrecedes(u, w, k) ==
    IF k > Len(u) THEN TRUE
    ELSE IF k > Len(w) THEN FALSE
    ELSE IF Precedes(u[k], w[k]) /\ Precedes(w[k], u[k])
         THEN ListPrecedes(u, w, k + 1)
         ELSE Precedes(u[k], w[k])

\* a is not behind b by order key.
KeyLeq(a, b) == key_cmp(to_key(a), to_key(b)) <= 0

F_Identity == Func_Bound(<<>>)

\* Forward Order of the identity has been applied: the elements are
\* compared by their own keys.
OrderedByOwnKey == Executed /\ func = F_Order(F_Identity)

\* C15: by order key every Integer is before every List and every List
\* before every Error, Integers go by value, Lists element by element with
\* a proper prefix first, and two Errors are equal whatever their reasons;
\* the relation is reflexive, transitive and total.  Stated of the argument
\* a against all arguments b and c of the model; and Order of the identity
\* leaves a pair as it is exactly when its first value is not behind the
\* second.
C15_TotalOrderOfValues ==
    OrderedByOwnKey =>
        LET a == parsed_input IN
        /\ KeyLeq(a, a)
        /\ \A b \in ApplyArgs :
            /\ KeyLeq(a, b) <=> Precedes(a, b)
            /\ KeyLeq(a, b) \/ KeyLeq(b, a)
            /\ (is_error(a) /\ is_error(b)) => key_cmp(to_key(a), to_key(b)) = 0
            /\ \A c \in ApplyArgs : (KeyLeq(a, b) /\ KeyLeq(b, c)) => KeyLeq(a, c)
        /\ (is_list(a) /\ Len(a.l) = 2) =>
                result = IF Precedes(a.l[1], a.l[2]) THEN a
                         ELSE Object_List(<<a.l[2], a.l[1]>>)

\* 0 goes before [1]: an Integer before a List.
C15_Witness ==
    /\ Executed
    /\ func = F_Order(F_Identity)
    /\ parsed_input = Object_List(<<Object_List(<<Object_Int(1)>>), Object_Int(0)>>)
    /\ result = Object_List(<<Object_Int(0), Object_List(<<Object_Int(1)>>)>>)

----------------------------------------------------------------------------
(* Inverse of Inverse                                                      *)

\* C16: for every primitive P and every value v, forward
\* Inverse(Inverse(P)) on v is forward P on v, and so is the inverse of
\* Inverse(P) on v.
C16_DoubleInverseCancels ==
    \A op \in BasicFuncs :
        /\ (Executed /\ func = F_Inverse(F_Inverse(F_Basic(op)))) =>
                result = Func_execute(F_Basic(op), parsed_input)
        /\ (Inverted /\ func = F_Inverse(F_Basic(op))) =>
                result = Func_execute(F_Basic(op), parsed_input)

\* Head, not its inverse: 1 + 1.
C16_Witness ==
    /\ Executed
    /\ func = F_Inverse(F_Inverse(F_Head))
    /\ parsed_input = Object_Int(1)
    /\ result = Object_Int(2)

----------------------------------------------------------------------------
(* Length                                                                  *)

F_Length == Func_Basic("Length")

\* The number whose binary digits, most significant first, are ds[1..k].
RECURSIVE ValueOfDigits(_, _)
ValueOfDigits(ds, k) ==
    IF k = 0 THEN 0 ELSE 2 * ValueOfDigits(ds, k - 1) + ds[k].i

\* ds is the binary numeral of n: digits 0 and 1, most significant first,
\* no leading 0 except for the numeral 0 itself.
IsBinaryNumeral(ds, n) ==
    /\ Len(ds) >= 1
    /\ \A k \in 1..Len(ds) : is_int(ds[k]) /\ ds[k].i \in {0, 1}
    /\ (Len(ds) > 1 => ds[1].i = 1)
    /\ ValueOfDigits(ds, Len(ds)) = n

\* C17: forward Length on an Integer n >= 0, 0 included, is the list of the
\* binary digits of n, most significant first, and the inverse of Length
\* on that list is n.
C17_LengthRoundTrip ==
    (Executed /\ func = F_Length /\ is_int(parsed_input) /\ parsed_input.i >= 0) =>
        /\ is_list(result)
        /\ IsBinaryNumeral(result.l, parsed_input.i)
        /\ Func_inverse_execute(F_Length, result) = parsed_input

\* 6 is 110.
C17_Witness ==
    /\ Executed
    /\ func = F_Length
    /\ parsed_input = Object_Int(6)
    /\ result = Object_List(<<Object_Int(1), Object_Int(1), Object_Int(0)>>)

----------------------------------------------------------------------------
(* The inverse of the other operators                                      *)

\* C18: the inverse of Higher(op, body) for op among Map, Filter,
\* FixedPoint and Repeat is forward Higher(op, Inverse(body)), and the
\* inverse of Double(d, l, r) is forward Double(d, Inverse(l), Inverse(r));
\* so the inverse of Map(Head) on 10 is [-1, 0, ..., 8].
C18_InverseFallback ==
    /\ (Inverted /\ func.kind = "Higher"
            /\ func.op \in {"Map", "Filter", "FixedPoint", "Repeat"}) =>
        result = Func_execute(Func_Higher(func.op, F_Inverse(func.body)),
                              parsed_input)
    /\ (Inverted /\ func.kind = "Double") =>
        result = Func_execute(Func_Double(func.op, F_Inverse(func.func1),
                                          F_Inverse(func.func2)),
                              parsed_input)
    /\ (Inverted /\ func = F_Map(F_Head) /\ parsed_input = Object_Int(10)) =>
        result = Object_List([k \in 1..10 |-> Object_Int(k - 2)])

\* Bifurcate inverted: the inverses of Head and Tail of [1, 2], that is its
\* last element and the list without it.
C18_Witness ==
    /\ Inverted
    /\ func = F_Bifurcate(F_Head, F_Tail)
    /\ parsed_input = Object_List(<<Object_Int(1), Object_Int(2)>>)
    /\ result = Object_List(<<Object_Int(2), Object_List(<<Object_Int(1)>>)>>)

----------------------------------------------------------------------------
(* FixedPoint                                                              *)

F_FixedPoint(body) == Func_Higher("FixedPoint", body)

\* r starts with v and each later element is P of the one before it.
IsOrbit(P, v, r) ==
    /\ r # <<>> => r[1] = v
    /\ \A k \in 1..(Len(r) - 1) : r[k + 1] = Func_execute(P, r[k])

\* C19: forward FixedPoint(body) on v returns [v, body(v), ...] cut just
\* before the first value that is an Error or was collected already: the
\* elements are pairwise distinct, none is an Error, the list is empty
\* exactly when v is an Error, and body of the last element is an Error or
\* one of the elements.
C19_FixedPoint ==
    (Returned /\ Executed /\ func.kind = "Higher" /\ func.op = "FixedPoint") =>
        /\ is_list(result)
        /\ IsOrbit(func.body, parsed_input, result.l)
        /\ (result.l = <<>>) <=> is_error(parsed_input)
        /\ \A k \in 1..Len(result.l) : ~is_error(result.l[k])
        /\ \A j, k \in 1..Len(result.l) : j < k => result.l[j] # result.l[k]
        /\ result.l # <<>> =>
                LET next == Func_execute(func.body, Last(result.l))
                IN  is_error(next) \/ \E k \in 1..Len(result.l) : result.l[k] = next

\* Sum takes 2 to 0, 0 to 1 and 1 back to 0.
C19_Witness ==
    /\ Executed
    /\ func = F_FixedPoint(F_Sum)
    /\ parsed_input = Object_Int(2)
    /\ result = Object_List(<<Object_Int(2), Object_Int(0), Object_Int(1)>>)

----------------------------------------------------------------------------
(* While                                                                   *)

F_While(func1, func2) == Func_Double("While", func1, func2)
F_PowerSet == Func_Basic("PowerSet")

\* The test of While on x passes: left(x) is truthy (an Error is not).
Passes(left, x) == is_truthy(Func_execute(left, x))

\* C20: forward While(left, right) on v returns a list that starts with v,
\* each later element being right of the one before it; left passes on
\* every element but the last; the list ends at the first element on which
\* left does not pass or on which right gives an Error; no element is an
\* Error, and the list is empty exactly when v is an Error.
C20_While ==
    (Returned /\ Executed /\ func.kind = "Double" /\ func.op = "While") =>
        /\ is_list(result)
        /\ IsOrbit(func.func2, parsed_input, result.l)
        /\ (result.l = <<>>) <=> is_error(parsed_input)
        /\ \A k \in 1..Len(result.l) : ~is_error(result.l[k])
        /\ \A k \in 1..(Len(result.l) - 1) : Passes(func.func1, result.l[k])
        /\ result.l # <<>> =>
                \/ ~Passes(func.func1, Last(result.l))
                \/ is_error(Func_execute(func.func2, Last(result.l)))

\* PowerSet of a List is never empty, so the loop runs until Tail of []
\* gives an Error.
C20_Witness ==
    /\ Executed
    /\ func = F_While(F_PowerSet, F_Tail)
    /\ parsed_input = Object_List(<<Object_Int(1), Object_Int(2)>>)
    /\ result = Object_List(<<Object_List(<<Object_Int(1), Object_Int(2)>>),
                             Object_List(<<Object_Int(2)>>),
                             Object_List(<<>>)>>)

----------------------------------------------------------------------------
(* Repeat                                                                  *)

F_Repeat(body) == Func_Higher("Repeat", body)

\* (times, start) of Repeat on v.
TimesOf(v) ==
    IF is_list(v) /\ Len(v.l) >= 1 THEN v.l[1] ELSE v

StartOf(v) ==
    IF is_list(v) /\ Len(v.l) >= 2 THEN v.l[2]
    ELSE IF is_list(v) /\ Len(v.l) = 1 THEN v.l[1]
    ELSE v

\* P applied j times to x.
RECURSIVE Power(_, _, _)
Power(P, x, j) == IF j = 0 THEN x ELSE Func_execute(P, Power(P, x, j - 1))

\* C21: with (times, start) taken from v, forward Repeat(body) on v is
\* [start, body(start), ..., body^k(start)] when times is a List of length
\* k, [body(start), ..., body^k(start)] when times is an Integer k >= 0,
\* and [] when times is a negative Integer or an Error; an Error of the
\* body does not end the iteration.
C21_Repeat ==
    (Returned /\ Executed /\ func.kind = "Higher" /\ func.op = "Repeat") =>
        LET times == TimesOf(parsed_input)
            start == StartOf(parsed_input)
            P == func.body
        IN  /\ is_list(result)
            /\ is_list(times) =>
                    /\ Len(result.l) = Len(times.l) + 1
                    /\ \A j \in 0..Len(times.l) : result.l[j + 1] = Power(P, start, j)
            /\ (is_int(times) /\ times.i >= 0) =>
                    /\ Len(result.l) = times.i
                    /\ \A j \in 1..times.i : result.l[j] = Power(P, start, j)
            /\ ((is_int(times) /\ times.i < 0) \/ is_error(times)) =>
                    result.l = <<>>

\* Tail of [] is an Error, and the second round is run on that Error.
C21_Witness ==
    /\ Executed
    /\ func = F_Repeat(F_Tail)
    /\ parsed_input = Object_List(<<Object_Int(2), Object_List(<<>>)>>)
    /\ Len(result.l) = 2
    /\ is_error(result.l[1]) /\ is_error(result.l[2])

----------------------------------------------------------------------------
(* The inverse of Product                                                  *)

F_Product == Func_Basic("Product")

\* The integer square root of n >= 1, by bisection: lo * lo <= n < hi * hi.
RECURSIVE RootBetween(_, _, _)
RootBetween(n, lo, hi) ==
    IF hi - lo <= 1 THEN lo
    ELSE LET mid == lo + (hi - lo) \div 2 IN
         IF mid <= n \div mid THEN RootBetween(n, mid, hi)
         ELSE RootBetween(n, lo, mid)

Root(n) == IF n < 2 THEN 1 ELSE RootBetween(n, 1, n)

IsPrime(n) ==
    /\ n >= 2
    /\ \A d \in 2..Root(n) : n % d # 0

\* Quotient and remainder of num by den # 0, the quotient truncated
\* toward zero.
TruncQuot(num, den) ==
    IF (num < 0) = (den < 0) THEN Abs(num) \div Abs(den)
    ELSE -(Abs(num) \div Abs(den))

TruncRem(num, den) == num - TruncQuot(num, den) * den

\* The inverse of Product has been applied to a pair of Integers.
InvertedOnPair ==
    /\ Inverted /\ func = F_Product
    /\ is_list(parsed_input) /\ Len(parsed_input.l) = 2
    /\ is_int(parsed_input.l[1]) /\ is_int(parsed_input.l[2])

\* The inverse of Product on [num, den]: [q, r] with q truncated toward
\* zero and r = num - q * den of the sign of num, an Error for den = 0.
DividesPair ==
    InvertedOnPair =>
        LET num == parsed_input.l[1].i
            den == parsed_input.l[2].i
        IN  IF den = 0 THEN is_error(result)
            ELSE /\ result = Object_List(<<Object_Int(TruncQuot(num, den)),
                                           Object_Int(TruncRem(num, den))>>)
                 /\ Abs(TruncRem(num, den)) < Abs(den)
                 /\ TruncRem(num, den) # 0 => (TruncRem(num, den) < 0) = (num < 0)

\* The inverse of Product has been applied to an Integer.
InvertedOnInt == Inverted /\ func = F_Product /\ is_int(parsed_input)

\* C22: the inverse of Product on an Integer n is 1 exactly when n is
\* prime and 0 otherwise; on [num, den] it is [q, r] with q truncated
\* toward zero and r = num - q * den, or an Error when den = 0.
C22_InverseProduct ==
    /\ InvertedOnInt =>
            result = Object_Int(IF IsPrime(parsed_input.i) THEN 1 ELSE 0)
    /\ DividesPair

\* The trial division of n by an i32 ends before a square overflows: n has
\* a divisor up to its root, or the square after its root is an i32.
WithinI32(n) ==
    \/ n < 2
    \/ ~IsPrime(n)
    \/ Root(n) + 1 <= MaxI32 \div (Root(n) + 1)

\* C22, what the code does: the statement holds on pairs, and on every
\* Integer whose trial division stays inside the i32; on a prime past the
\* largest square of an i32 the multiplication overflows.
C22_InverseProductWithinI32 ==
    /\ InvertedOnInt =>
            IF WithinI32(parsed_input.i)
            THEN result = Object_Int(IF IsPrime(parsed_input.i) THEN 1 ELSE 0)
            ELSE result = Overflow
    /\ DividesPair

\* 2^31 - 1 is prime, and 46341 * 46341 is not an i32.
C22_Witness ==
    /\ Inverted
    /\ func = F_Product
    /\ parsed_input = Object_Int(MaxI32)
    /\ result = Overflow

----------------------------------------------------------------------------
(* The text of Values.                                                     *)

\* Integer := optional '-', one or more decimal digits
IsInteger(s) ==
    LET body == IF s # <<>> /\ s[1] = "-" THEN Tail(s) ELSE s
    IN  body # <<>> /\ \A k \in 1..Len(body) : IsDigit(body[k])

\* Value := Integer | List;  List := '[' (Value (', ' Value)*)? ']'
RECURSIVE IsValue(_)
RECURSIVE IsElems(_)
IsElems(t) ==
    \/ IsValue(t)
    \/ \E k \in 2..(Len(t) - 2) :
          /\ t[k] = ","
          /\ t[k + 1] = " "
          /\ IsValue(SubSeq(t, 1, k - 1))
          /\ IsElems(SubSeq(t, k + 2, Len(t)))

IsValue(s) ==
    \/ IsInteger(s)
    \/ /\ Len(s) >= 2
       /\ s[1] = "["
       /\ s[Len(s)] = "]"
       /\ Len(s) = 2 \/ IsElems(SubSeq(s, 2, Len(s) - 1))

\* Every numeral of the text is the one the printer writes: no "-0" and no
\* digit after a leading "0".
PrintedNumerals(s) ==
    \A k \in 1..Len(s) :
        (s[k] = "0" /\ (k = 1 \/ ~IsDigit(s[k - 1])))
            => /\ k = Len(s) \/ ~IsDigit(s[k + 1])
               /\ k = 1 \/ s[k - 1] # "-"

\* How deep the Lists of a Value nest: 0 for an Integer, 1 for a flat List.
RECURSIVE Depth(_)
Depth(v) ==
    IF v.kind # "List" THEN 0
    ELSE IF v.l = <<>> THEN 1
    ELSE 1 + max_of({Depth(v.l[k]) : k \in 1..Len(v.l)})

\* The input text has been handed to from_str.
Read == pc # "input"

\* C23: every Value of Integers and Lists, however deep, printed and parsed
\* again, is the Value itself; and every text of the value grammar, parsed
\* and printed again, is the text itself.
C23_TextRoundTrip ==
    /\ \A v \in TextValues :
          (Read /\ input = fmt(v)) => (pc # "panic" /\ parsed_input = v)
    /\ (Read /\ IsValue(input)) => pc # "panic"
    /\ (pc = "printed" /\ IsValue(input)) => printed = input

\* C23, as the code has it: a Value whose Lists nest at most two deep,
\* printed and parsed again, is the Value itself, and a deeper one stops
\* from_str with a panic; a text of the value grammar that from_str accepts
\* is printed again as it was if its numerals are the printer's.
C23_TextRoundTripToDepthTwo ==
    /\ \A v \in TextValues :
          (Read /\ input = fmt(v)) =>
              IF Depth(v) <= 2 THEN pc # "panic" /\ parsed_input = v
              ELSE pc = "panic" /\ panic_msg = "Open has close"
    /\ (pc = "printed" /\ IsValue(input) /\ PrintedNumerals(input))
          => printed = input

C23_Witness ==
    /\ pc = "printed"
    /\ input = fmt(Object_List(<<Object_List(<<Object_Int(1), Object_Int(2)>>),
                   Object_List(<<>>), Object_Int(-3),
                   Object_List(<<Object_Int(4)>>)>>))
    /\ parsed_input = result
    /\ printed = input

\* The inverse of Order(P) has returned on a non-Error argument.
InverseOrdered ==
    /\ Returned /\ Inverted
    /\ func.kind = "Higher" /\ func.op = "Order"
    /\ ~is_error(parsed_input)

\* C24: with s = as_sequence(v) and s[i] standing at place Rank(P, s, i) of
\* forward Order(P), the inverse of Order(P) returns the list whose i-th
\* element is the element of s at index Rank(P, s, i); it is a permutation
\* of s, and on an Integer n >= 0 the forward result A and the inverse
\* result B satisfy A[B[i]] = i for every i < n.
C24_InverseOrder ==
    InverseOrdered =>
        LET s == AsSequence(parsed_input)
            P == func.body
            A == Func_execute(func, parsed_input)
            B == result
        IN  /\ is_list(B)
            /\ Len(s) < 2 => B.l = s
            /\ Len(s) >= 2 =>
                LET inv == [i \in 1..Len(s) |-> Rank(P, s, i)]
                IN  /\ PermutedBy(inv, s, B.l)
                    /\ is_list(A) /\ Len(A.l) = Len(s)
                    /\ \A i \in 1..Len(s) : A.l[inv[i]] = s[i]
            /\ (is_int(parsed_input) /\ parsed_input.i >= 0) =>
                    /\ is_list(A) /\ Len(A.l) = parsed_input.i
                    /\ Len(B.l) = parsed_input.i
                    /\ \A i \in 0..(parsed_input.i - 1) :
                            A.l[B.l[i + 1].i + 1] = Object_Int(i)

\* The test inverse_order: the sums of 0, .., 4 order the range as
\* [1, 2, 3, 4, 0], and the inverse permutation is [4, 0, 1, 2, 3].
C24_Witness ==
    /\ InverseOrdered
    /\ func = F_Order(F_Sum)
    /\ parsed_input = Object_Int(5)
    /\ Func_execute(func, parsed_input) =
           Object_List(<<Object_Int(1), Object_Int(2), Object_Int(3),
                         Object_Int(4), Object_Int(0)>>)
    /\ result = Object_List(<<Object_Int(4), Object_Int(0), Object_Int(1),
                              Object_Int(2), Object_Int(3)>>)

\* Forward Bifurcate(left, right) has returned.
Bifurcated ==
    /\ Returned /\ Executed
    /\ func.kind = "Double" /\ func.op = "Bifurcate"

\* C25: forward Bifurcate(left, right) on v returns a = left(v) if a is an
\* Error, otherwise b = right(v) if b is an Error, otherwise [a, b]; when
\* both are Errors the result is a.
C25_Bifurcate ==
    Bifurcated =>
        LET a == Func_execute(func.func1, parsed_input)
            b == Func_execute(func.func2, parsed_input)
        IN  /\ is_error(a) => result = a
            /\ (~is_error(a) /\ is_error(b)) => result = b
            /\ (~is_error(a) /\ ~is_error(b)) => result = Object_List(<<a, b>>)
            /\ (is_error(a) /\ is_error(b)) => result = a

\* Head and Tail of the empty list fail with different reasons; the reason
\* of Head is the one returned.
C25_Witness ==
    /\ Bifurcated
    /\ func = F_Bifurcate(F_Head, F_Tail)
    /\ parsed_input = Object_List(<<>>)
    /\ Func_execute(F_Tail, parsed_input) = Object_Error("Tail of empty list")
    /\ result = Object_Error("Head of empty list")

F_Combine == F_Basic("Combine")

\* Forward Combine has been called on a List.
Combined == Executed /\ func = F_Combine /\ is_list(parsed_input)

\* The length Combine counts for an element: 1 for an Integer.
InnerLen(e) == IF is_int(e) THEN 1 ELSE Len(e.l)

\* The greatest InnerLen of the elements of l, 0 if there is none.
MaxInnerLen(l) ==
    CHOOSE m \in 0..MaxList :
        /\ \A k \in 1..Len(l) : InnerLen(l[k]) <= m
        /\ m = 0 \/ \E k \in 1..Len(l) : InnerLen(l[k]) = m

\* Element e has an item for row i (rows counted from 0), and the item.
HasItem(e, i) == IF is_int(e) THEN i = 0 ELSE i < Len(e.l)
Item(e, i) == IF is_int(e) THEN e ELSE e.l[i + 1]

\* row is row i of l: the items for row i, in the order of their elements.
IsRow(row, l, i) ==
    LET present == {k \in 1..Len(l) : HasItem(l[k], i)}
        nth(j) == CHOOSE k \in present :
                      Cardinality({h \in present : h < k}) = j - 1
    IN  /\ is_list(row)
        /\ Len(row.l) = Cardinality(present)
        /\ \A j \in 1..Len(row.l) : row.l[j] = Item(l[nth(j)], i)

\* What the claim says of result for the List l.
CombineOf(l) ==
    IF \E k \in 1..Len(l) : is_error(l[k])
    THEN \E k \in 1..Len(l) :
            /\ is_error(l[k])
            /\ \A j \in 1..(k - 1) : ~is_error(l[j])
            /\ result = l[k]
    ELSE /\ is_list(result)
         /\ Len(result.l) = MaxInnerLen(l)
         /\ \A i \in 1..Len(result.l) : IsRow(result.l[i], l, i - 1)

\* C26: forward Combine on every List l, the empty list included, returns
\* the first Error among the elements of l if there is one, otherwise the
\* List of the MaxInnerLen(l) rows of l.
C26_Combine == Combined => (~IsAbort(result) /\ CombineOf(parsed_input.l))

\* C26, as the code has it: the same for every List with an element; on
\* the empty list the call panics.
C26_CombineOfNonEmpty ==
    Combined =>
        IF parsed_input.l = <<>> THEN result = Abort("Empty -> 1")
        ELSE ~IsAbort(result) /\ CombineOf(parsed_input.l)

\* Lists of one, none and two items and an Integer: two rows, the Integer
\* in the first only.
C26_Witness ==
    /\ Combined
    /\ parsed_input = Object_List(<<Object_List(<<Object_Int(0)>>),
                          Object_List(<<>>),
                          Object_List(<<Object_Int(1), Object_Int(1)>>),
                          Object_Int(MaxArg)>>)
    /\ result = Object_List(<<
                    Object_List(<<Object_Int(0), Object_Int(1),
                                  Object_Int(MaxArg)>>),
                    Object_List(<<Object_Int(1)>>)>>)

----------------------------------------------------------------------------
(* The tokens of a program and the nodes of its tree.                      *)

IsFunctionToken(token) == token.kind \in {"Basic", "Higher", "Double"}

\* The Basic, Higher and Double tokens of toks, in textual order, from
\* token i on.
RECURSIVE FunctionTokens(_, _)
FunctionTokens(toks, i) ==
    IF i > Len(toks) THEN <<>>
    ELSE (IF IsFunctionToken(toks[i]) THEN <<toks[i]>> ELSE <<>>)
             \o FunctionTokens(toks, i + 1)

\* The token a node of the tree was made of.
TokenOf(node) == [kind |-> node.kind, op |-> node.op]

\* C27: when parse returns, the pre-order traversal of the tree (operator
\* before its bodies, left body before right body, Bound elements left to
\* right, Bound([]) giving nothing) is the sequence of the Basic, Higher
\* and Double tokens of the program in textual order.
C27_TokensInPreOrder ==
    Parsed =>
        LET nodes == PreOrder(func)
            function_tokens == FunctionTokens(tokens, 1)
        IN  /\ Len(nodes) = Len(function_tokens)
            /\ \A k \in 1..Len(nodes) : TokenOf(nodes[k]) = function_tokens[k]

\* b q h h q h h z: a quoted body, a bound body and an open Double in one
\* program; the five function tokens come back in their order.
C27_Witness ==
    /\ Parsed
    /\ Program(<<"b", "q", "h", "h", "q", "h", "h", "z">>)
    /\ Len(PreOrder(func)) = 5
    /\ TokenOf(PreOrder(func)[1]) = Token_Double("Bifurcate")
    /\ \A k \in 2..5 : TokenOf(PreOrder(func)[k]) = Token_Basic("Head")

----------------------------------------------------------------------------
(* The Quote marker of the parser stack.                                   *)

\* The panics of parse that stand for a broken quote count.
QuotePanics ==
    {"assertion failed: no Quote before SoloQuote",
     "assertion failed: quote_count <= 1",
     "unreachable: Didn't find paired quote",
     "unreachable: All quotes paired at start of parse"}

\* The quote tokens among the first n tokens.
QuotesBefore(n) ==
    Cardinality({k \in 1..n : tokens[k].kind = "Bound"
                                /\ tokens[k].op \in {"BoundQuote", "SoloQuote"}})

\* C28: after each token the stack holds at most one Quote marker, the
\* asserts on the quote count and the two unreachable branches are never
\* taken, and when the token loop has ended the stack holds no Quote
\* marker.
C28_QuoteMarker ==
    /\ quote_count(state) <= 1
    /\ panic_msg \notin QuotePanics
    /\ (pc = "parse" /\ pos > Len(tokens)) => quote_count(state) = 0
    /\ pc = "done" => quote_count(state) = 0

\* m q h q: the second quote has found the marker of the first, and the
\* token loop ends without a marker on the stack.
C28_Witness ==
    /\ pc = "parse"
    /\ pos > Len(tokens)
    /\ QuotesBefore(Len(tokens)) = 2
    /\ Program(<<"m", "q", "h", "q">>)
    /\ quote_count(state) = 0
    /\ state = <<HOF_Func(Func_Higher("Map", Func_Bound(<<Func_Basic("Head")>>)))>>

----------------------------------------------------------------------------
(* Termination of the parser.                                              *)

\* parse has returned or the run has aborted.
Halted == pc \in {"done", "panic"}

\* What the closing-quote loop still has to take apart: each iteration
\* pops a stack entry, or moves a function from the bind group into a
\* DoubleHalf it pushes back.
QuoteLoopMeasure == 2 * Len(state) + Len(locals.rev_bind_group)

QuoteLoopDecreases ==
    (pc = "quote_loop" /\ pc' = "quote_loop")
        => QuoteLoopMeasure' < QuoteLoopMeasure

\* C29: every run of parse halts, by returning a tree or by a panic; the
\* iterations of the closing-quote loop, the one that pushes a DoubleHalf
\* back, strictly decrease a measure; and what parse returns is one Func
\* of the Bound variant.
C29_ParseTerminates ==
    /\ <>Halted
    /\ [][QuoteLoopDecreases]_vars
    /\ [](Parsed => func.kind = "Bound")

\* m q b h q: the closing quote pops h, pushes DoubleHalf(Bifurcate, h)
\* back, pops it again, and parse returns.
C29_Witness ==
    /\ Parsed
    /\ Program(<<"m", "q", "b", "h", "q">>)
    /\ func = Func_Bound(<<Func_Higher("Map", Func_Bound(<<
                  Func_Double("Bifurcate", Func_Basic("Head"),
                              Func_Bound(<<>>))>>))>>)

\* The steps of parse give what parse gives as a function of the tokens.
StepsAgree ==
    /\ Parsed => (parse(tokens).ok /\ func = parse(tokens).val)
    /\ (pc = "panic" /\ panic_msg # "Lex")
          => (~parse(tokens).ok /\ panic_msg = parse(tokens).msg)

----------------------------------------------------------------------------
(* Prime factorisation.                                                    *)

\* Forward Product has been applied to an Integer.
Factored == Executed /\ func = F_Product /\ is_int(parsed_input)

\* The product of the Integers l[k], l[k + 1], ...
RECURSIVE ProductOf(_, _)
ProductOf(l, k) == IF k > Len(l) THEN 1 ELSE l[k].i * ProductOf(l, k + 1)

\* What the claim says of the factor list of n = |v| apart from its last
\* sentence: for n >= 2 a non-empty list of primes that do not decrease
\* and multiply to n, also by forward Product where the model can hold the
\* product; for n < 2 the empty list, whose forward Product is 1.
FactorsOf(n) ==
    /\ is_list(result)
    /\ \A k \in 1..Len(result.l) : is_int(result.l[k])
    /\ n >= 2 =>
          /\ result.l # <<>>
          /\ \A k \in 1..Len(result.l) : IsPrime(result.l[k].i)
          /\ \A k \in 1..(Len(result.l) - 1) : result.l[k].i <= result.l[k + 1].i
          /\ ProductOf(result.l, 1) = n
          /\ Func_execute(F_Product, result) \in {Object_Int(n), Beyond}
          /\ n <= MaxAbs => Func_execute(F_Product, result) = Object_Int(n)
    /\ n < 2 =>
          /\ result.l = <<>>
          /\ Func_execute(F_Product, result) = Object_Int(1)

\* C30: forward Product on an Integer n with |n| >= 2 is a non-empty list
\* of primes in non-decreasing order whose forward Product is |n|; with
\* |n| < 2 it is the empty list, of product 1; and the list has length 1
\* exactly when the inverse of Product on |n| is 1.
C30_Factorisation ==
    Factored =>
        LET n == Abs(parsed_input.i)
        IN  /\ FactorsOf(n)
            /\ Len(result.l) = 1
                  <=> Func_inverse_execute(F_Product, Object_Int(n)) = Object_Int(1)

\* C30, what the code does: the same, but for a prime past the largest
\* square of an i32 the factor list has length 1 and the inverse of
\* Product overflows.
C30_FactorisationWithinI32 ==
    Factored =>
        LET n == Abs(parsed_input.i)
            inverse == Func_inverse_execute(F_Product, Object_Int(n))
        IN  /\ FactorsOf(n)
            /\ IF WithinI32(n)
               THEN Len(result.l) = 1 <=> inverse = Object_Int(1)
               ELSE Len(result.l) = 1 /\ inverse = Overflow

\* -12 is factored as 12 is: [2, 2, 3], which multiplies back to 12, and
\* 12 is no prime for the inverse.
C30_Witness ==
    /\ Factored
    /\ parsed_input = Object_Int(-12)
    /\ result = Object_List(<<Object_Int(2), Object_Int(2), Object_Int(3)>>)
    /\ Func_execute(F_Product, result) = Object_Int(12)
    /\ Func_inverse_execute(F_Product, Object_Int(12)) = Object_Int(0)

====
